---- MODULE Spec2Model ----
(***************************************************************************)
(* A model of garyburd/s3web (staticsite): the front-matter extractor, the *)
(* layout resolver, the page processor, the directory walk and the         *)
(* template loader.  Each component has its own variables and its own      *)
(* specification; a specification leaves the other components' variables   *)
(* at their idle values.                                                   *)
(***************************************************************************)
EXTENDS Integers, Sequences, FiniteSets, TLC

(***************************************************************************)
(* Bounds of the model.                                                    *)
(***************************************************************************)
\* Longest file given to readFileWithFrontMatter.
MaxFileLen == 5

\* Modification times are 1..MaxTime; 0 is the zero time.Time.
MaxTime == 2

(***************************************************************************)
(* Generic helpers.                                                        *)
(***************************************************************************)
SeqsUpTo(S, n) == UNION {[1..k -> S] : k \in 0..n}

SetMax(S) == CHOOSE m \in S : \A o \in S : o <= m

SetMin(S) == CHOOSE m \in S : \A o \in S : m <= o

\* A Go map: assignment m[k] = v and delete(m, k).
MapPut(m, k, v) == [x \in (DOMAIN m) \cup {k} |-> IF x = k THEN v ELSE m[x]]

MapDelete(m, k) == [x \in (DOMAIN m) \ {k} |-> m[x]]

EmptyMap == <<>>

\* bytes.Count(p, "\n") for the byte slice p.
CountNL(p) == Cardinality({i \in 1..Len(p) : p[i] = "\n"})

(***************************************************************************)
(* Front-matter extractor: readFileWithFrontMatter, FrontMatterEnd,        *)
(* DecodeConfig.                                                           *)
(*                                                                         *)
(* A file is a sequence of bytes over a small alphabet.  "{" and "}" are   *)
(* the JSON braces, "\n" and " " are white space, "k" stands for one       *)
(* well-formed member of a known field, "u" for one well-formed member of  *)
(* an unknown field and "x" for a byte that is not JSON.                   *)
(***************************************************************************)
VARIABLES fmData, fmExists, fmPc, fmOut, fmHas, fmErr, fmEnd, fmDecoded

fmVars == <<fmData, fmExists, fmPc, fmOut, fmHas, fmErr, fmEnd, fmDecoded>>

FmAlphabet == {"{", "}", "\n", " ", "k", "u", "x"}

\* The regexp class \s restricted to the alphabet.
IsSpace(c) == c \in {" ", "\n"}

NoError == [kind |-> "none", line |-> 0, idx |-> 0]

\* Number of consecutive white-space bytes of data from index i (1-based) on.
WsRun(data, i) ==
  LET stops == {j \in i..Len(data) : ~IsSpace(data[j])}
  IN  IF stops = {} THEN (IF i > Len(data) THEN 0 ELSE Len(data) - i + 1)
      ELSE SetMin(stops) - i

\* frontStart = (?m)\A{\s*  : FindIndex is non-nil iff the first byte is "{".
FrontStartMatchWs(data) ==
  \E i \in 1..Len(data) :
     /\ data[i] = "{"
     /\ \A j \in 1..(i - 1) : IsSpace(data[j])

FrontStartMatch(data) == Len(data) > 0 /\ data[1] = "{"

\* The end offsets at which (?m)^}\s*$ can match with its "}" at index i:
\* "^" wants the start of the text or a preceding newline, "$" wants the end
\* of the text or a following newline.
FrontEndAtAnywhere(data, i) ==
  IF data[i] # "}" THEN {}
  ELSE {e \in i..(i + WsRun(data, i + 1)) : e = Len(data) \/ data[e + 1] = "\n"}

FrontEndAt(data, i) ==
  IF data[i] # "}" \/ ~(i = 1 \/ data[i - 1] = "\n") THEN {}
  ELSE {e \in i..(i + WsRun(data, i + 1)) : e = Len(data) \/ data[e + 1] = "\n"}

\* frontEnd.FindIndex(data): m[1] of the leftmost match, \s* greedy; -1 for nil.
FrontEndIndex(data) ==
  LET starts == {i \in 1..Len(data) : FrontEndAt(data, i) # {}}
  IN  IF starts = {} THEN -1 ELSE SetMax(FrontEndAt(data, SetMin(starts)))

FrontMatterEnd(data) ==
  IF ~FrontStartMatch(data) THEN -1 ELSE FrontEndIndex(data)

\* json.Decoder.Decode with DisallowUnknownFields on data (which starts with
\* "{"): the whole value is scanned first, so a byte that is not JSON is a
\* SyntaxError whose Offset is the number of bytes read, the offending byte
\* included; an unknown field is reported afterwards, by an error that is no
\* SyntaxError.  The value ends at the first "}".
JsonDecode(data) ==
  LET closes == {i \in 2..Len(data) : data[i] = "}"}
      last   == IF closes = {} THEN Len(data) ELSE SetMin(closes)
      bad    == {i \in 2..last : data[i] \in {"x", "{"}}
      unk    == {i \in 2..last : data[i] = "u"}
  IN  IF bad # {} THEN [kind |-> "syntax", offset |-> SetMin(bad), idx |-> SetMin(bad)]
      ELSE IF unk # {} THEN [kind |-> "unknown", offset |-> 0, idx |-> SetMin(unk)]
      ELSE [kind |-> "none", offset |-> 0, idx |-> 0]

\* The line DecodeConfig prints for a SyntaxError.
SyntaxErrorLine(data, offset) == CountNL(SubSeq(data, 1, offset + 1)) + 1

DecodeConfig(data) ==
  LET r == JsonDecode(data)
  IN  IF r.kind = "syntax"
        THEN [kind |-> "syntax", line |-> SyntaxErrorLine(data, r.offset), idx |-> r.idx]
      ELSE IF r.kind = "unknown"
        THEN [kind |-> "unknown", line |-> 1, idx |-> r.idx]
      ELSE NoError

\* The loop that overwrites the front matter with spaces.
MaskAll(data, end) ==
  [i \in 1..Len(data) |-> IF i <= end THEN " " ELSE data[i]]

MaskFrontMatter(data, end) ==
  [i \in 1..Len(data) |-> IF i <= end /\ data[i] # "\n" THEN " " ELSE data[i]]

ReadFileWithFrontMatter(exists, data) ==
  IF ~exists
    THEN [data |-> <<>>, has |-> FALSE, end |-> -1, decoded |-> FALSE,
          err |-> [kind |-> "io", line |-> 0, idx |-> 0]]
  ELSE IF FrontMatterEnd(data) < 0
    THEN [data |-> data, has |-> FALSE, end |-> -1, decoded |-> FALSE, err |-> NoError]
  ELSE LET end == FrontMatterEnd(data)
           err == DecodeConfig(SubSeq(data, 1, end))
       IN  IF err.kind # "none"
             THEN [data |-> <<>>, has |-> FALSE, end |-> end, decoded |-> TRUE, err |-> err]
           ELSE [data |-> MaskFrontMatter(data, end), has |-> TRUE, end |-> end,
                 decoded |-> TRUE, err |-> NoError]

FmInit ==
  /\ fmData \in SeqsUpTo(FmAlphabet, MaxFileLen)
  /\ fmExists \in BOOLEAN
  /\ fmPc = "call"
  /\ fmOut = <<>>
  /\ fmHas = FALSE
  /\ fmErr = NoError
  /\ fmEnd = -1
  /\ fmDecoded = FALSE

FmIdle ==
  /\ fmData = <<>>
  /\ fmExists = FALSE
  /\ fmPc = "idle"
  /\ fmOut = <<>>
  /\ fmHas = FALSE
  /\ fmErr = NoError
  /\ fmEnd = -1
  /\ fmDecoded = FALSE

FmCall ==
  /\ fmPc = "call"
  /\ LET r == ReadFileWithFrontMatter(fmExists, fmData)
     IN  /\ fmOut' = r.data
         /\ fmHas' = r.has
         /\ fmErr' = r.err
         /\ fmEnd' = r.end
         /\ fmDecoded' = r.decoded
  /\ fmPc' = "done"
  /\ UNCHANGED <<fmData, fmExists>>


(***************************************************************************)
(* Layout resolver: site.readResource, site.readTemplate, template.parse,  *)
(* template.execute.                                                       *)
(*                                                                         *)
(* The layout directory holds the files of Layouts.  A file is missing,    *)
(* has front matter that does not decode, has a body that does not parse,  *)
(* or is sound; a readable file declares a parent layout (lyParent, ""     *)
(* for none) and has a modification time.  Layout references are taken as  *)
(* already resolved to the path of the file they name.  One build pass     *)
(* reads each page of Pages at most once, in any order.  lyStats counts    *)
(* the calls of os.Stat for each layout file (every read of a layout file  *)
(* follows one), and lyFirst holds, for each layout path, the entry of the *)
(* first readTemplate that returned without error for it.  An              *)
(* html/template object is named by its form and the file it was made      *)
(* for: the clone form and the exec copy of a layout entry, and the clone  *)
(* of a page's own leaf template.  lyExecuted holds the objects of the     *)
(* layout entries and of baseTemplate that were executed, lyRan the object *)
(* executed for the page at hand, and lyPanic whether Clone was called on  *)
(* an executed object, which htemplate.Must turns into a panic.            *)
(***************************************************************************)
VARIABLES lyParent, lyMTime, lyStatus, templates, lyStack, lyPc, lyArg,
          lyRet, lyPage, lyRes, lyDone, lyStats, lyFirst, lyExecuted, lyRan,
          lyPanic

lyVars == <<lyParent, lyMTime, lyStatus, templates, lyStack, lyPc, lyArg,
            lyRet, lyPage, lyRes, lyDone, lyStats, lyFirst, lyExecuted, lyRan,
            lyPanic>>

Layouts == {"a.html", "b.html"}

Pages == {"/p.html", "/q.html"}

\* The nil *template: the marker readTemplate stores to detect recursion.
NilTemplate == [name |-> "", modTime |-> 0, chain |-> <<>>]

\* var baseTemplate: no ancestors and the zero modification time.
baseTemplate == [name |-> "_", modTime |-> 0, chain |-> <<>>]

NoPage == [path |-> "", mtime |-> 0, layout |-> "", render |-> FALSE, plain |-> FALSE]

NoResult == [path |-> "", err |-> "", modTime |-> 0, cached |-> FALSE, fcTime |-> 0]

\* func maxTime(a, b time.Time): a if a.After(b), else b.
maxTime(a, b) == IF a > b THEN a ELSE b

\* template.parse without an error: the file's templates are added to a
\* clone of the receiver's clone form; modTime is the later of the two.
ParseFileTimeOnly(t, fpath, modTime) ==
  [name |-> fpath, modTime |-> modTime, chain |-> Append(t.chain, fpath)]

TemplateParse(t, fpath, modTime) ==
  [name |-> fpath, modTime |-> maxTime(modTime, t.modTime),
   chain |-> Append(t.chain, fpath)]

\* s.templates[fpath] = nil // for detecting recursion
NoRecursionMarker(m, fpath) == m

SetRecursionMarker(m, fpath) == MapPut(m, fpath, NilTemplate)

\* A resolver whose recursion marker outlives the call that set it.
KeepRecursionMarker(m, fpath) == m

\* delete(s.templates, fpath) // undo recursion check
UndoRecursionCheck(m, fpath) == MapDelete(m, fpath)

\* A resolver that never caches what it built.
ForgetTemplate(m, fpath, t) == m

\* s.templates[fpath] = t
CacheTemplate(m, fpath, t) == MapPut(m, fpath, t)

NoObject == <<"", "">>

\* t.clone and t.exec of the template t, and t1 of the parse of a page.
CloneForm(t) == <<"clone", t.name>>

ExecCopy(t) == <<"exec", t.name>>

LeafClone(upath) == <<"leaf", upath>>

\* A resolver that executes the parsed form of a layout.
ExecuteCloneForm(t) == CloneForm(t)

\* template.execute: t.exec, which is htemplate.Must(t.clone.Clone()) when
\* it was nil, is the object that is executed.
ExecutedObject(t) == ExecCopy(t)

LyStatuses == {"ok", "missing", "badfront", "badparse"}

LyInit ==
  /\ lyParent \in [Layouts -> Layouts \cup {""}]
  /\ lyMTime \in [Layouts -> 1..MaxTime]
  /\ lyStatus \in [Layouts -> LyStatuses]
  /\ templates = EmptyMap
  /\ lyStack = <<>>
  /\ lyPc = "idle"
  /\ lyArg = ""
  /\ lyRet = [t |-> NilTemplate, err |-> "", cached |-> FALSE]
  /\ lyPage = NoPage
  /\ lyRes = NoResult
  /\ lyDone = {}
  /\ lyStats = [f \in Layouts |-> 0]
  /\ lyFirst = EmptyMap
  /\ lyExecuted = {}
  /\ lyRan = NoObject
  /\ lyPanic = FALSE

LyIdle ==
  /\ lyParent = [f \in Layouts |-> ""]
  /\ lyMTime = [f \in Layouts |-> 1]
  /\ lyStatus = [f \in Layouts |-> "ok"]
  /\ templates = EmptyMap
  /\ lyStack = <<>>
  /\ lyPc = "off"
  /\ lyArg = ""
  /\ lyRet = [t |-> NilTemplate, err |-> "", cached |-> FALSE]
  /\ lyPage = NoPage
  /\ lyRes = NoResult
  /\ lyDone = {}
  /\ lyStats = [f \in Layouts |-> 0]
  /\ lyFirst = EmptyMap
  /\ lyExecuted = {}
  /\ lyRan = NoObject
  /\ lyPanic = FALSE

\* readResource up to its call of readTemplate.  A page that is served as it
\* is (no front-matter extension, no front matter, or neither Render nor
\* Layout) keeps the modification time of its file.
ReadResourceStart ==
  /\ lyPc = "idle"
  /\ \E p \in Pages \ lyDone, mt \in 1..MaxTime, plain \in BOOLEAN,
        render \in BOOLEAN, l \in Layouts \cup {""} :
       /\ plain => (~render /\ l = "")
       /\ ~plain => (render \/ l # "")
       /\ lyDone' = lyDone \cup {p}
       /\ lyPage' = [path |-> p, mtime |-> mt, layout |-> l, render |-> render,
                     plain |-> plain]
       /\ IF plain
            THEN /\ lyPc' = "idle"
                 /\ lyRes' = [path |-> p, err |-> "", modTime |-> mt,
                              cached |-> FALSE, fcTime |-> 0]
                 /\ lyArg' = ""
            ELSE /\ lyPc' = "resolve"
                 /\ lyRes' = NoResult
                 /\ lyArg' = l
  /\ lyRan' = NoObject
  /\ UNCHANGED <<lyParent, lyMTime, lyStatus, templates, lyStack, lyRet, lyStats, lyFirst,
                 lyExecuted, lyPanic>>

\* readTemplate from its entry to its recursive call or its early return.
ReadTemplateEnter ==
  /\ lyPc = "resolve"
  /\ IF lyArg = ""
       THEN /\ lyRet' = [t |-> baseTemplate, err |-> "", cached |-> FALSE]
            /\ lyPc' = "unwind"
            /\ UNCHANGED <<templates, lyStack, lyArg, lyStats, lyFirst>>
     ELSE IF lyArg \in DOMAIN templates
       THEN /\ lyRet' = IF templates[lyArg] = NilTemplate
                          THEN [t |-> NilTemplate, err |-> "recursive layouts", cached |-> FALSE]
                          ELSE [t |-> templates[lyArg], err |-> "", cached |-> lyStack = <<>>]
            /\ lyPc' = "unwind"
            /\ UNCHANGED <<templates, lyStack, lyArg, lyStats, lyFirst>>
     ELSE IF lyStatus[lyArg] = "missing"
       THEN /\ lyRet' = [t |-> NilTemplate, err |-> "stat", cached |-> FALSE]
            /\ lyPc' = "unwind"
            /\ lyStats' = [lyStats EXCEPT ![lyArg] = @ + 1]
            /\ UNCHANGED <<templates, lyStack, lyArg, lyFirst>>
     ELSE IF lyStatus[lyArg] = "badfront"
       THEN /\ lyRet' = [t |-> NilTemplate, err |-> "front matter", cached |-> FALSE]
            /\ lyPc' = "unwind"
            /\ lyStats' = [lyStats EXCEPT ![lyArg] = @ + 1]
            /\ UNCHANGED <<templates, lyStack, lyArg, lyFirst>>
     ELSE /\ templates' = SetRecursionMarker(templates, lyArg)
          /\ lyStack' = Append(lyStack, lyArg)
          /\ lyArg' = lyParent[lyArg]
          /\ lyStats' = [lyStats EXCEPT ![lyArg] = @ + 1]
          /\ UNCHANGED <<lyRet, lyPc, lyFirst>>
  /\ UNCHANGED <<lyParent, lyMTime, lyStatus, lyPage, lyRes, lyDone, lyExecuted, lyRan,
                 lyPanic>>

\* readTemplate after its recursive call returned: the marker is removed,
\* then the file is parsed on top of the parent and cached.
ReadTemplateReturn ==
  /\ lyPc = "unwind"
  /\ lyStack # <<>>
  /\ LET fpath == lyStack[Len(lyStack)]
         undone == UndoRecursionCheck(templates, fpath)
     IN  /\ lyStack' = SubSeq(lyStack, 1, Len(lyStack) - 1)
         /\ IF lyRet.err # ""
              THEN /\ templates' = undone
                   /\ UNCHANGED <<lyRet, lyFirst, lyPanic>>
            ELSE IF lyStatus[fpath] = "badparse"
              THEN /\ templates' = undone
                   /\ lyRet' = [t |-> NilTemplate, err |-> "parse", cached |-> FALSE]
                   /\ lyPanic' = (lyPanic \/ CloneForm(lyRet.t) \in lyExecuted)
                   /\ UNCHANGED lyFirst
            ELSE LET t == TemplateParse(lyRet.t, fpath, lyMTime[fpath])
                 IN  /\ templates' = CacheTemplate(undone, fpath, t)
                     /\ lyRet' = [t |-> t, err |-> "", cached |-> FALSE]
                     /\ lyFirst' = IF fpath \in DOMAIN lyFirst THEN lyFirst
                                                               ELSE MapPut(lyFirst, fpath, t)
                     /\ lyPanic' = (lyPanic \/ CloneForm(lyRet.t) \in lyExecuted)
  /\ UNCHANGED <<lyParent, lyMTime, lyStatus, lyPc, lyArg, lyPage, lyRes, lyDone, lyStats,
                 lyExecuted, lyRan>>

\* The modification time readResource leaves in the resource: the file's,
\* the layout chain's and the one the template functions collected.
ResourceModTime(fileTime, chainTime, fcTime) ==
  maxTime(maxTime(fileTime, chainTime), fcTime)

\* readResource after readTemplate returned.  With Render the page itself is
\* parsed on top of the layout (with the zero time) and executed directly;
\* the template functions report the latest time of the files they touched.
ReadResourceFinish ==
  /\ lyPc = "unwind"
  /\ lyStack = <<>>
  /\ lyPc' = "idle"
  /\ lyArg' = ""
  /\ IF lyRet.err # ""
       THEN /\ lyRes' = [path |-> lyPage.path, err |-> lyRet.err, modTime |-> 0,
                         cached |-> FALSE, fcTime |-> 0]
            /\ UNCHANGED <<lyExecuted, lyRan, lyPanic>>
       ELSE \E parseOk \in BOOLEAN, execOk \in BOOLEAN, fcTime \in 0..MaxTime :
              /\ ~lyPage.render => parseOk
              /\ ~parseOk => (execOk /\ fcTime = 0)
              /\ ~execOk => fcTime = 0
              /\ LET t == IF lyPage.render
                            THEN TemplateParse(lyRet.t, lyPage.path, 0)
                            ELSE lyRet.t
                 IN  lyRes' =
                       IF ~parseOk
                         THEN [path |-> lyPage.path, err |-> "parse", modTime |-> 0,
                               cached |-> FALSE, fcTime |-> 0]
                       ELSE IF ~execOk
                         THEN [path |-> lyPage.path, err |-> "execute", modTime |-> 0,
                               cached |-> FALSE, fcTime |-> 0]
                       ELSE [path |-> lyPage.path, err |-> "",
                             modTime |-> ResourceModTime(lyPage.mtime, lyRet.t.modTime, fcTime),
                             cached |-> lyRet.cached, fcTime |-> fcTime]
              /\ lyPanic' = (lyPanic \/ ((lyPage.render \/ ExecCopy(lyRet.t) \notin lyExecuted)
                                          /\ CloneForm(lyRet.t) \in lyExecuted))
              /\ IF ~parseOk THEN UNCHANGED <<lyExecuted, lyRan>>
                 ELSE IF lyPage.render
                   THEN /\ lyRan' = LeafClone(lyPage.path)
                        /\ UNCHANGED lyExecuted
                 ELSE /\ lyRan' = ExecutedObject(lyRet.t)
                      /\ lyExecuted' = lyExecuted \cup {ExecutedObject(lyRet.t)}
  /\ UNCHANGED <<lyParent, lyMTime, lyStatus, templates, lyStack, lyRet, lyPage, lyDone,
                 lyStats, lyFirst>>

LyNext ==
  \/ ReadResourceStart
  \/ ReadTemplateEnter
  \/ ReadTemplateReturn
  \/ ReadResourceFinish

(***************************************************************************)
(* Template loader: Loader.Get, loadTemplate, getTrees, loadTrees and      *)
(* meta.Import.                                                            *)
(*                                                                         *)
(* The template directory holds the files of Files.  ldImports[f] is the   *)
(* set of files the meta template of f imports (in the order of            *)
(* ImportOrder); an unreadable file imports nothing.  Each goroutine of    *)
(* Procs calls Get for the paths of ldTodo, one call at a time, and runs   *)
(* the calls Get makes on its own stack of frames.  ldRuns counts, for    *)
(* every file, the calls of loadTemplate, the calls of loadTrees that      *)
(* loadTemplate makes and the calls of loadTrees that getTrees makes.      *)
(***************************************************************************)
VARIABLES ldImports, ldReadable, templateCache, treesCache, ldStack,
          ldInflight, ldTodo, ldResult, ldRuns

ldVars == <<ldImports, ldReadable, templateCache, treesCache, ldStack,
            ldInflight, ldTodo, ldResult, ldRuns>>

Files == {"r.html", "b.html", "c.html"}

Procs == {"g1", "g2"}

\* The order in which the imports of one file are executed.
ImportOrder == <<"r.html", "b.html", "c.html">>

NilErr == [kind |-> "nil", file |-> ""]

\* A cache entry: a sync.Once (new, running in goroutine owner, or done), and
\* the value and the error its function stored.
NewEntry == [once |-> "new", owner |-> "", value |-> {}, err |-> NilErr]

NoRuns == [loadTemplate |-> 0, direct |-> 0, imported |-> 0]

LdFrame(op, fpath, pc) ==
  [op |-> op, fpath |-> fpath, pc |-> pc, todo |-> <<>>, trees |-> {}, err |-> NilErr]

\* The imports of f as the sequence in which Import is called.
RECURSIVE ImportSeqFrom(_, _)
ImportSeqFrom(f, i) ==
  IF i > Len(ImportOrder) THEN <<>>
  ELSE IF ImportOrder[i] \in ldImports[f]
    THEN <<ImportOrder[i]>> \o ImportSeqFrom(f, i + 1)
  ELSE ImportSeqFrom(f, i + 1)

ImportSeq(f) == ImportSeqFrom(f, 1)

LdTop(g) == ldStack[g][Len(ldStack[g])]

LdPop(g) == SubSeq(ldStack[g], 1, Len(ldStack[g]) - 1)

LdSetTop(g, fr) == [ldStack[g] EXCEPT ![Len(ldStack[g])] = fr]

\* A lookup that stores a new entry whether there is one or not.
CacheWithNewEntry(cache, fpath) == MapPut(cache, fpath, NewEntry)

\* l.templateCache / l.treesCache lookup under the mutex: the entry of fpath,
\* a new one being stored when there is none.
CacheWithEntry(cache, fpath) ==
  IF fpath \in DOMAIN cache THEN cache ELSE MapPut(cache, fpath, NewEntry)

LdGraphs == [Files -> SUBSET Files]

LdInitWith(todo) ==
  /\ ldImports \in LdGraphs
  /\ ldReadable \in {Files} \cup {Files \ {f} : f \in Files}
  /\ templateCache = EmptyMap
  /\ treesCache = EmptyMap
  /\ ldStack = [g \in Procs |-> <<>>]
  /\ ldInflight = [g \in Procs |-> {}]
  /\ ldTodo = todo
  /\ ldResult = [g \in Procs |-> EmptyMap]
  /\ ldRuns = [f \in Files |-> NoRuns]

\* The paths the goroutines call Get for at the same time.
SharedPaths == {"r.html", "b.html"}

\* Every goroutine calls Get for the paths of SharedPaths; b.html can be
\* read or not, and c.html imports nothing.
LdInitShared ==
  /\ ldImports \in {gr \in LdGraphs : gr["c.html"] = {}}
  /\ ldReadable \in {Files, Files \ {"b.html"}}
  /\ templateCache = EmptyMap
  /\ treesCache = EmptyMap
  /\ ldStack = [g \in Procs |-> <<>>]
  /\ ldInflight = [g \in Procs |-> {}]
  /\ ldTodo = [g \in Procs |-> SharedPaths]
  /\ ldResult = [g \in Procs |-> EmptyMap]
  /\ ldRuns = [f \in Files |-> NoRuns]

\* One goroutine calls Get for every path, one call after the other.
LdInit == LdInitWith([g \in Procs |-> IF g = "g1" THEN Files ELSE {}])

LdIdle ==
  /\ ldImports = [f \in Files |-> {}]
  /\ ldReadable = Files
  /\ templateCache = EmptyMap
  /\ treesCache = EmptyMap
  /\ ldStack = [g \in Procs |-> <<>>]
  /\ ldInflight = [g \in Procs |-> {}]
  /\ ldTodo = [g \in Procs |-> {}]
  /\ ldResult = [g \in Procs |-> EmptyMap]
  /\ ldRuns = [f \in Files |-> NoRuns]

\* Loader.Get up to e.once.Do: the cache entry is found or made under
\* templateMu.  loadTemplate will start with an empty inflight map.
LoaderGet(g) ==
  /\ ldStack[g] = <<>>
  /\ \E path \in ldTodo[g] :
       /\ ldTodo' = [ldTodo EXCEPT ![g] = @ \ {path}]
       /\ templateCache' = CacheWithEntry(templateCache, path)
       /\ ldStack' = [ldStack EXCEPT ![g] = <<LdFrame("Get", path, "once")>>]
       /\ ldInflight' = [ldInflight EXCEPT ![g] = {}]
  /\ UNCHANGED <<ldRuns, ldImports, ldReadable, treesCache, ldResult>>

\* e.once.Do(f) of Get and of getTrees.  A Once that is done returns at
\* once; a new one runs f, which calls loadTrees, in this goroutine; a Once
\* whose f is running makes the caller wait until f has returned.
OnceDo(g) ==
  /\ ldStack[g] # <<>>
  /\ LdTop(g).pc = "once"
  /\ LET fr == LdTop(g)
         isGet == fr.op = "Get"
         e == IF isGet THEN templateCache[fr.fpath] ELSE treesCache[fr.fpath]
     IN  /\ e.once # "running"
         /\ IF e.once = "done"
              THEN /\ ldStack' = [ldStack EXCEPT ![g] = LdSetTop(g, [fr EXCEPT !.pc = "ret"])]
                   /\ UNCHANGED <<templateCache, treesCache, ldRuns>>
              ELSE /\ ldStack' = [ldStack EXCEPT ![g] =
                         Append(LdSetTop(g, [fr EXCEPT !.pc = "running"]),
                                LdFrame("loadTrees", fr.fpath, "start"))]
                   /\ ldRuns' = [ldRuns EXCEPT ![fr.fpath] =
                         IF isGet THEN [@ EXCEPT !.loadTemplate = @ + 1, !.direct = @ + 1]
                                  ELSE [@ EXCEPT !.imported = @ + 1]]
                   /\ IF isGet
                        THEN /\ templateCache' = [templateCache EXCEPT ![fr.fpath] =
                                   [e EXCEPT !.once = "running", !.owner = g]]
                             /\ UNCHANGED treesCache
                        ELSE /\ treesCache' = [treesCache EXCEPT ![fr.fpath] =
                                   [e EXCEPT !.once = "running", !.owner = g]]
                             /\ UNCHANGED templateCache
  /\ UNCHANGED <<ldImports, ldReadable, ldInflight, ldTodo, ldResult>>

\* loadTrees up to the execution of the meta template: the cycle check on
\* inflight, the file read and the parse.
LoadTreesStart(g) ==
  /\ ldStack[g] # <<>>
  /\ LdTop(g).op = "loadTrees" /\ LdTop(g).pc = "start"
  /\ LET fr == LdTop(g)
     IN  IF fr.fpath \in ldInflight[g]
           THEN /\ ldStack' = [ldStack EXCEPT ![g] = LdSetTop(g,
                      [fr EXCEPT !.pc = "return", !.err = [kind |-> "cycle", file |-> fr.fpath]])]
                /\ UNCHANGED ldInflight
         ELSE /\ ldInflight' = [ldInflight EXCEPT ![g] = @ \cup {fr.fpath}]
              /\ IF fr.fpath \notin ldReadable
                   THEN ldStack' = [ldStack EXCEPT ![g] = LdSetTop(g,
                          [fr EXCEPT !.pc = "return", !.err = [kind |-> "read", file |-> fr.fpath]])]
                   ELSE ldStack' = [ldStack EXCEPT ![g] = LdSetTop(g,
                          [fr EXCEPT !.pc = "imports", !.todo = ImportSeq(fr.fpath),
                                     !.trees = {fr.fpath}])]
  /\ UNCHANGED <<ldRuns, ldImports, ldReadable, templateCache, treesCache, ldTodo, ldResult>>

\* meta.Import up to e.once.Do of getTrees: the entry of the imported file is
\* found or made under treesMu.
MetaImport(g) ==
  /\ ldStack[g] # <<>>
  /\ LdTop(g).op = "loadTrees" /\ LdTop(g).pc = "imports"
  /\ LdTop(g).todo # <<>>
  /\ LET path == Head(LdTop(g).todo)
     IN  /\ treesCache' = CacheWithEntry(treesCache, path)
         /\ ldStack' = [ldStack EXCEPT ![g] = Append(@, LdFrame("getTrees", path, "once"))]
  /\ UNCHANGED <<ldRuns, ldImports, ldReadable, templateCache, ldInflight, ldTodo, ldResult>>

\* getTrees returns e.trees, e.err to Import: an error stops the execution
\* of the meta template, otherwise the trees are merged and the next import
\* follows.
GetTreesReturn(g) ==
  /\ ldStack[g] # <<>>
  /\ LdTop(g).op = "getTrees" /\ LdTop(g).pc = "ret"
  /\ LET e == treesCache[LdTop(g).fpath]
         below == LdPop(g)
         fr == below[Len(below)]
         fr2 == IF e.err # NilErr
                  THEN [fr EXCEPT !.pc = "return", !.err = e.err, !.trees = {}]
                  ELSE [fr EXCEPT !.todo = Tail(@), !.trees = @ \cup e.value]
     IN  ldStack' = [ldStack EXCEPT ![g] = [below EXCEPT ![Len(below)] = fr2]]
  /\ UNCHANGED <<ldRuns, ldImports, ldReadable, templateCache, treesCache, ldInflight,
                 ldTodo, ldResult>>

\* loadTrees returns into the function of the Once that called it, which
\* stores the result in the entry; the Once is done.
LoadTreesReturn(g) ==
  /\ ldStack[g] # <<>>
  /\ LdTop(g).op = "loadTrees"
  /\ \/ LdTop(g).pc = "return"
     \/ LdTop(g).pc = "imports" /\ LdTop(g).todo = <<>>
  /\ LET fr == LdTop(g)
         below == LdPop(g)
         caller == below[Len(below)]
         done == [once |-> "done", owner |-> "", value |-> fr.trees, err |-> fr.err]
     IN  /\ ldStack' = [ldStack EXCEPT ![g] =
               [below EXCEPT ![Len(below)] = [caller EXCEPT !.pc = "ret"]]]
         /\ IF caller.op = "Get"
              THEN /\ templateCache' = [templateCache EXCEPT ![caller.fpath] = done]
                   /\ UNCHANGED treesCache
              ELSE /\ treesCache' = [treesCache EXCEPT ![caller.fpath] = done]
                   /\ UNCHANGED templateCache
  /\ UNCHANGED <<ldRuns, ldImports, ldReadable, ldInflight, ldTodo, ldResult>>

\* Get returns e.template, e.err.
LoaderGetReturn(g) ==
  /\ ldStack[g] # <<>>
  /\ LdTop(g).op = "Get" /\ LdTop(g).pc = "ret"
  /\ LET e == templateCache[LdTop(g).fpath]
     IN  ldResult' = [ldResult EXCEPT ![g] =
            MapPut(@, LdTop(g).fpath, [template |-> e.value, err |-> e.err])]
  /\ ldStack' = [ldStack EXCEPT ![g] = <<>>]
  /\ UNCHANGED <<ldRuns, ldImports, ldReadable, templateCache, treesCache, ldInflight, ldTodo>>

(***************************************************************************)
(* HTML minifier: Minify and appendMinText.                                *)
(*                                                                         *)
(* A document is a sequence of lexemes: a one-byte string is a byte of     *)
(* text, a longer string is a whole tag or comment.  The tokenizer makes   *)
(* one text token of every maximal run of text bytes.                      *)
(***************************************************************************)
StartTags == {"<div>", "<pre>"}

EndTags == {"</div>", "</pre>"}

SelfClosingTags == {"<br/>", "<pre/>"}

CommentLexemes == {"<!--c-->"}

TextBytes == {"a", "n", " ", "\n"}

\* z.TagName() of a tag lexeme.
TagName(x) ==
  CASE x \in {"<div>", "</div>"} -> "div"
    [] x \in {"<pre>", "</pre>", "<pre/>"} -> "pre"
    [] OTHER -> "br"

\* var rawTags, restricted to the tags of the model.
rawTags == {"pre"}

\* What Minify writes for a start or self-closing tag: "<", the name, ">".
StartTagOutput(x) ==
  CASE TagName(x) = "div" -> "<div>"
    [] TagName(x) = "pre" -> "<pre>"
    [] OTHER -> "<br>"

\* The cutset of bytes.TrimLeft in appendMinText, " \t\\n\r\n": blank, tab,
\* backslash, the letter n, carriage return, newline.
TrimCutset == {" ", "\t", "\\", "n", "\r", "\n"}

RECURSIVE TrimLeft(_, _)
TrimLeft(src, cutset) ==
  IF src # <<>> /\ Head(src) \in cutset THEN TrimLeft(Tail(src), cutset) ELSE src

\* The loop of appendMinText over src from index i, with the pending flags.
RECURSIVE MinTextLoop(_, _, _, _, _)
MinTextLoop(dst, src, i, emitNL, emitSpace) ==
  IF i > Len(src)
    THEN IF emitNL THEN Append(dst, "\n")
         ELSE IF emitSpace THEN Append(dst, " ")
         ELSE dst
  ELSE IF src[i] = "\n" THEN MinTextLoop(dst, src, i + 1, TRUE, emitSpace)
  ELSE IF src[i] \in {" ", "\r", "\t"} THEN MinTextLoop(dst, src, i + 1, emitNL, TRUE)
  ELSE IF emitNL THEN MinTextLoop(dst \o <<"\n", src[i]>>, src, i + 1, FALSE, FALSE)
  ELSE IF emitSpace THEN MinTextLoop(dst \o <<" ", src[i]>>, src, i + 1, emitNL, FALSE)
  ELSE MinTextLoop(Append(dst, src[i]), src, i + 1, emitNL, emitSpace)

appendMinText(dst, src) ==
  IF Len(dst) > 0
    THEN IF dst[Len(dst)] = "\n"
           THEN MinTextLoop(SubSeq(dst, 1, Len(dst) - 1), src, 1, TRUE, FALSE)
         ELSE IF dst[Len(dst)] = " "
           THEN MinTextLoop(SubSeq(dst, 1, Len(dst) - 1), src, 1, FALSE, TRUE)
         ELSE MinTextLoop(dst, src, 1, FALSE, FALSE)
  ELSE MinTextLoop(dst, TrimLeft(src, TrimCutset), 1, FALSE, FALSE)

\* The end (exclusive) of the text token that starts at index i.
RECURSIVE TextTokenEnd(_, _)
TextTokenEnd(src, i) ==
  IF i <= Len(src) /\ src[i] \in TextBytes
    THEN TextTokenEnd(src, i + 1)
    ELSE i

\* One turn of the token loop of Minify at index i, with the output so far
\* and the count of open raw elements.
MinifyToken(src, i, dst, raw) ==
  IF src[i] \in StartTags \cup SelfClosingTags
    THEN [i |-> i + 1, dst |-> Append(dst, StartTagOutput(src[i])),
          raw |-> IF TagName(src[i]) \in rawTags THEN raw + 1 ELSE raw]
  ELSE IF src[i] \in EndTags
    THEN [i |-> i + 1, dst |-> Append(dst, src[i]),
          raw |-> IF TagName(src[i]) \in rawTags THEN raw - 1 ELSE raw]
  ELSE IF src[i] \in CommentLexemes
    THEN [i |-> i + 1, dst |-> dst, raw |-> raw]
  ELSE LET j == TextTokenEnd(src, i)
           text == SubSeq(src, i, j - 1)
       IN  [i |-> j, dst |-> IF raw > 0 THEN dst \o text ELSE appendMinText(dst, text),
            raw |-> raw]

\* The token loop of Minify from index i.
RECURSIVE MinifyLoop(_, _, _, _)
MinifyLoop(src, i, dst, raw) ==
  IF i > Len(src) THEN dst
  ELSE LET next == MinifyToken(src, i, dst, raw)
       IN  MinifyLoop(src, next.i, next.dst, next.raw)

Minify(src) == MinifyLoop(src, 1, <<>>, 0)

\* One call of Minify, token by token: the document, the index of the next
\* token, dst and raw.
VARIABLES mnSrc, mnI, mnDst, mnRaw, mnPc

mnVars == <<mnSrc, mnI, mnDst, mnRaw, mnPc>>

MaxTokens == 4

MinifyAlphabet == {"<pre>", "</pre>", "<pre/>", "<div>", "<!--c-->", "a", "n", " ", "\n"}

MnInit ==
  /\ mnSrc \in SeqsUpTo(MinifyAlphabet, MaxTokens)
  /\ mnI = 1
  /\ mnDst = <<>>
  /\ mnRaw = 0
  /\ mnPc = "loop"

MnIdle ==
  /\ mnSrc = <<>>
  /\ mnI = 0
  /\ mnDst = <<>>
  /\ mnRaw = 0
  /\ mnPc = "off"

\* tt := z.Next() gives a token.
MinifyNext ==
  /\ mnPc = "loop"
  /\ mnI <= Len(mnSrc)
  /\ LET next == MinifyToken(mnSrc, mnI, mnDst, mnRaw)
     IN  /\ mnI' = next.i
         /\ mnDst' = next.dst
         /\ mnRaw' = next.raw
  /\ UNCHANGED <<mnSrc, mnPc>>

\* tt := z.Next() gives the ErrorToken of io.EOF: return dst, nil.
MinifyReturn ==
  /\ mnPc = "loop"
  /\ mnI > Len(mnSrc)
  /\ mnPc' = "done"
  /\ UNCHANGED <<mnSrc, mnI, mnDst, mnRaw>>

(***************************************************************************)
(* Page processor: Page.set and site.processPage.                          *)
(*                                                                         *)
(* Strings that the code takes apart (paths, action names, argument texts) *)
(* are sequences of lexemes: "/" is a lexeme, a path segment is a lexeme,  *)
(* the prefix "t:" is a lexeme.  A time is a natural number, 0 the zero    *)
(* time.Time.  An action is a record of its Name, its Args (a map from     *)
(* argument names to texts) and its Text; a file is the outcome of         *)
(* action.ParseFile: the parsed stream, or a parse error.                  *)
(***************************************************************************)
MaxActions == 2

TextAction == <<"__text__">>

\* strings.HasPrefix(s, prefix) for a one-lexeme prefix.
HasPrefix(s, prefix) == Len(s) > 0 /\ s[1] = prefix

\* path.Base: the last element of the path, trailing slashes removed.
RECURSIVE LastElement(_)
LastElement(upath) ==
  IF upath = <<>> \/ upath[Len(upath)] = "/" THEN <<>>
  ELSE Append(LastElement(SubSeq(upath, 1, Len(upath) - 1)), upath[Len(upath)])

RECURSIVE Base(_)
Base(upath) ==
  IF upath = <<>> THEN <<".">>
  ELSE IF upath[Len(upath)] = "/"
    THEN IF Len(upath) = 1 THEN <<"/">> ELSE Base(SubSeq(upath, 1, Len(upath) - 1))
  ELSE LastElement(upath)

\* time.Parse(time.RFC3339, text) on the texts of the model.
ParseRFC3339(text) ==
  IF text = <<"2019-01-01T00:00:00Z">> THEN [ok |-> TRUE, t |-> 1]
  ELSE IF text = <<"2020-01-01T00:00:00Z">> THEN [ok |-> TRUE, t |-> 2]
  ELSE [ok |-> FALSE, t |-> 0]

\* An error value: the message, the file, and the place (the index of the
\* action in the stream and the argument, "" for the action itself) that
\* Location(lc) prints in front of it.
NilError == [msg |-> "", file |-> <<>>, act |-> 0, arg |-> ""]

PageError(msg, file, act, arg) == [msg |-> msg, file |-> file, act |-> act, arg |-> arg]

\* The layouts of the site directory: the blocks each defines and what its
\* root template writes around .Content.
LayoutFiles == {<<"base.html">>, <<"alt.html">>}

NoLayout == <<>>

LayoutBlocks(layout) ==
  IF layout = <<"base.html">> THEN {<<"body">>, <<"req">>, <<"boom">>} ELSE {<<"body">>}

\* layout.Execute(&buf, p)
LayoutExecute(layout, p) ==
  IF layout = <<"base.html">>
    THEN <<"<div>">> \o p.Content \o <<"</div>", " ">>
    ELSE p.Content \o <<"\n", "\n">>

\* t.Execute(&body, &ad) for the block called name: what it writes, the
\* error of the execution, and the error it left in ad.err.
BlockExecute(layout, name, a, file, i) ==
  IF name = <<"body">>
    THEN [out |-> IF layout = <<"base.html">> THEN <<"a">> ELSE <<"n", " ">>,
          failed |-> FALSE, aderr |-> NilError]
  ELSE IF name = <<"req">>
    THEN IF "x" \in DOMAIN a.Args
           THEN [out |-> a.Args["x"], failed |-> FALSE, aderr |-> NilError]
           ELSE [out |-> <<>>, failed |-> TRUE,
                 aderr |-> PageError("required argument not found", file, i, "x")]
  ELSE [out |-> <<>>, failed |-> TRUE, aderr |-> NilError]

\* s.loader.Load(text): the template of a layout of the site, or an error
\* for which os.IsNotExist holds.
LoaderLoad(text) ==
  IF text \in LayoutFiles THEN [t |-> text, notExist |-> FALSE]
                          ELSE [t |-> NoLayout, notExist |-> TRUE]

\* p := &Page{Path: r.Path, Title: path.Base(r.Path), ...}
NewPage(r) ==
  [Path |-> r.Path, Title |-> Base(r.Path), Subtitle |-> <<>>, Created |-> 0,
   Updated |-> 0, Content |-> <<>>]

\* Page.set: the arguments of action a (the i-th of the file) are visited in
\* the order ord, one of the orders in which Go may range over the map.
RECURSIVE PageSet(_, _, _, _, _)
PageSet(p, a, ord, file, i) ==
  IF ord = <<>> THEN [p |-> p, err |-> NilError]
  ELSE LET k == Head(ord)
           v == a.Args[k]
       IN  IF k = "title" THEN PageSet([p EXCEPT !.Title = v], a, Tail(ord), file, i)
           ELSE IF k = "subtitle"
             THEN PageSet([p EXCEPT !.Subtitle = v], a, Tail(ord), file, i)
           ELSE IF k \in {"created", "updated"}
             THEN LET parsed == ParseRFC3339(v)
                      q == [p EXCEPT !.Created = parsed.t]
                  IN  IF parsed.ok THEN PageSet(q, a, Tail(ord), file, i)
                      ELSE [p |-> q, err |-> PageError("parsing time", file, i, k)]
           ELSE IF k = "path"
             THEN IF HasPrefix(v, "/")
                    THEN PageSet([p EXCEPT !.Path = v], a, Tail(ord), file, i)
                    ELSE [p |-> p,
                          err |-> PageError("page path must start with /", file, i, k)]
           ELSE IF k = "layout" THEN PageSet(p, a, Tail(ord), file, i)
           ELSE [p |-> p, err |-> PageError("unknown argument", file, i, k)]

\* The state of processPage between two actions of the stream: the page, the
\* layout selected so far, the body written so far, and the error that ended
\* the loop.
StartState(r) == [p |-> NewPage(r), layout |-> NoLayout, body |-> <<>>, err |-> NilError]

\* A processor that keeps the layout of the first set of the stream.
KeepFirstLayout(current, loaded) == IF current = NoLayout THEN loaded ELSE current

\* layout, err = s.loader.Load(v.Text): the variable layout is assigned at
\* every set that carries a layout argument.
SelectLayout(current, loaded) == loaded

\* One turn of the loop "for _, a := range actions" of processPage.
StepAction(a, ord, file, i, st) ==
  IF a.Name = TextAction THEN [st EXCEPT !.body = @ \o a.Text]
  ELSE IF a.Name = <<"set">>
    THEN LET res == PageSet(st.p, a, ord, file, i)
         IN  IF res.err # NilError THEN [st EXCEPT !.p = res.p, !.err = res.err]
             ELSE IF "layout" \in DOMAIN a.Args
               THEN LET l == LoaderLoad(a.Args["layout"])
                    IN  [st EXCEPT !.p = res.p, !.layout = SelectLayout(st.layout, l.t),
                           !.err = IF l.notExist
                                     THEN PageError("file does not exist", file, i, "layout")
                                     ELSE NilError]
             ELSE [st EXCEPT !.p = res.p]
  ELSE IF HasPrefix(a.Name, "t:")
    THEN IF st.layout = NoLayout
           THEN [st EXCEPT !.err = PageError("specify layout with set command", file, i, "")]
         ELSE IF Tail(a.Name) \notin LayoutBlocks(st.layout)
           THEN [st EXCEPT !.err = PageError("template not found in layout", file, i, "")]
         ELSE LET x == BlockExecute(st.layout, Tail(a.Name), a, file, i)
              IN  IF ~x.failed THEN [st EXCEPT !.body = @ \o x.out]
                  ELSE IF x.aderr # NilError THEN [st EXCEPT !.err = x.aderr]
                  ELSE [st EXCEPT !.err = PageError("template execution", file, i, "")]
  ELSE [st EXCEPT !.err = PageError("unknown command", file, i, "")]

RECURSIVE RunActions(_, _, _, _, _)
RunActions(actions, ords, file, i, st) ==
  IF i > Len(actions) \/ st.err # NilError THEN st
  ELSE RunActions(actions, ords, file, i + 1, StepAction(actions[i], ords[i], file, i, st))

\* The number of bytes of a sequence of lexemes.
RECURSIVE ByteLen(_)
ByteLen(data) == IF data = <<>> THEN 0 ELSE Len(Head(data)) + ByteLen(Tail(data))

\* The path of the page after its set actions.
QueryPathFinal(r, p) == p.Path

\* queryPath := r.Path, taken before r.Path = p.Path.
QueryPath(r, p) == r.Path

\* s.addPage(path, p): the insertion of the page registry.
addPage(registry, upath, p) == MapPut(registry, upath, p)

\* s.getPage(path) and s.pages[upath]: the page, or nil.
NilPage == [Path |-> <<>>, Title |-> <<>>, Subtitle |-> <<>>, Created |-> 0,
            Updated |-> 0, Content |-> <<>>]

getPage(registry, upath) == IF upath \in DOMAIN registry THEN registry[upath] ELSE NilPage

\* site.processPage(r) for the file parsed as file, with the registry as it
\* is before the call: the error, the resource and the registry after it,
\* the page and the layout last selected.  The layouts of the model execute
\* without error and Minify reads from memory, so the two error returns
\* after the loop are not taken.
ProcessPage(registry, r, file, ords) ==
  IF ~file.ok
    THEN [err |-> PageError("parse error", r.FilePath, 0, ""), r |-> r,
          pages |-> registry, p |-> NewPage(r), layout |-> NoLayout]
  ELSE
    LET st == RunActions(file.actions, ords, r.FilePath, 1, StartState(r))
        withContent == [st.p EXCEPT !.Content = st.body]
        p == IF st.layout = NoLayout THEN st.p ELSE withContent
        buf == IF st.layout = NoLayout THEN st.body
               ELSE LayoutExecute(st.layout, withContent)
        data == Minify(buf)
    IN  IF st.err # NilError
          THEN [err |-> st.err, r |-> r, pages |-> registry, p |-> st.p,
                layout |-> st.layout]
          ELSE [err |-> NilError,
                r |-> [r EXCEPT !.Data = data, !.Size = ByteLen(data), !.ModTime = 0,
                                !.Path = p.Path],
                pages |-> addPage(registry, QueryPath(r, p), p),
                p |-> p, layout |-> st.layout]

\* The orders in which Page.set may visit the arguments of each action.
Perms(S) == {f \in [1..Cardinality(S) -> S] : \A i, j \in DOMAIN f : f[i] = f[j] => i = j}

RECURSIVE ArgOrders(_)
ArgOrders(actions) ==
  IF actions = <<>> THEN {<<>>}
  ELSE {<<o>> \o rest : o \in Perms(DOMAIN Head(actions).Args),
                        rest \in ArgOrders(Tail(actions))}

\* The pages map of the site: the page registry.
VARIABLES pages

\* One call of processPage: the resource as the walker passed it and as the
\* call left it, the parsed file, and what the call returned and selected.
VARIABLES pgIn, pgFile, pgRes, pgErr, pgPage, pgLayout, pgPc

pgVars == <<pgIn, pgFile, pgRes, pgErr, pgPage, pgLayout, pgPc>>

PagePaths == {<<"/", "p", ".html">>, <<"/", "d", "/", "q", ".html">>}

Text(t) == [Name |-> TextAction, Args |-> EmptyMap, Text |-> t]

Command(name, args) == [Name |-> name, Args |-> args, Text |-> <<>>]

SampleActions ==
  { Text(<<"a">>),
    Text(<<"a", " ", "\n", "\n">>),
    Text(<<"<pre>", " ", "</pre>", " ", "n">>),
    Command(<<"set">>, ("title" :> <<"T">>) @@ ("subtitle" :> <<"S">>)),
    Command(<<"set">>, "path" :> <<"/", "f", ".html">>),
    Command(<<"set">>, "path" :> <<"f", ".html">>),
    Command(<<"set">>, "layout" :> <<"base.html">>),
    Command(<<"set">>, "layout" :> <<"alt.html">>),
    Command(<<"set">>, "layout" :> <<"none.html">>),
    Command(<<"set">>, ("created" :> <<"2019-01-01T00:00:00Z">>)
                         @@ ("updated" :> <<"2020-01-01T00:00:00Z">>)),
    Command(<<"set">>, "updated" :> <<"2019-01-01T00:00:00Z">>),
    Command(<<"set">>, ("bogus" :> <<"x">>) @@ ("created" :> <<"yesterday">>)),
    Command(<<"t:", "body">>, EmptyMap),
    Command(<<"t:", "req">>, EmptyMap),
    Command(<<"t:", "req">>, "x" :> <<"a", "\n">>),
    Command(<<"t:", "boom">>, EmptyMap),
    Command(<<"t:", "nope">>, EmptyMap),
    Command(<<"include">>, EmptyMap) }

\* The action streams of the page files: up to MaxActions actions, alone or
\* after the set action that selects the layout of the page.
ActionStreams ==
  LET streams == SeqsUpTo(SampleActions, MaxActions)
  IN  streams \cup {<<Command(<<"set">>, "layout" :> l)>> \o s : l \in LayoutFiles, s \in streams}

ParsedFile(actions) == [ok |-> TRUE, actions |-> actions]

UnparsableFile == [ok |-> FALSE, actions |-> <<>>]

\* The modification time of a layout file on disk.
LayoutModTime(layout) == IF layout = <<"base.html">> THEN MaxTime ELSE 1

\* &Resource{FilePath: filePath, Path: upath + "/" + name, ModTime: ...}
NewResource(filePath, upath, modTime) ==
  [FilePath |-> filePath, Path |-> upath, ModTime |-> modTime, Size |-> 0, Data |-> <<>>]

NoResource == [FilePath |-> <<>>, Path |-> <<>>, ModTime |-> 0, Size |-> 0, Data |-> <<>>]

PgInit ==
  /\ pages = EmptyMap
  /\ \E upath \in PagePaths, mt \in 1..MaxTime :
       pgIn = NewResource(<<"pages">> \o upath, upath, mt)
  /\ pgFile \in {UnparsableFile} \cup {ParsedFile(a) : a \in ActionStreams}
  /\ pgRes = pgIn
  /\ pgErr = NilError
  /\ pgPage = NilPage
  /\ pgLayout = NoLayout
  /\ pgPc = "call"

PgIdle ==
  /\ pgIn = NoResource
  /\ pgFile = UnparsableFile
  /\ pgRes = NoResource
  /\ pgErr = NilError
  /\ pgPage = NilPage
  /\ pgLayout = NoLayout
  /\ pgPc = "off"

\* err := s.processPage(r)
PgCall ==
  /\ pgPc = "call"
  /\ \E ords \in ArgOrders(pgFile.actions) :
       LET out == ProcessPage(pages, pgIn, pgFile, ords)
       IN  /\ pgRes' = out.r
           /\ pgErr' = out.err
           /\ pgPage' = out.p
           /\ pgLayout' = out.layout
           /\ pages' = out.pages
  /\ pgPc' = "done"
  /\ UNCHANGED <<pgIn, pgFile>>

(***************************************************************************)
(* The walk of one build pass: Visit, visitDirectory and visitFile.        *)
(*                                                                         *)
(* A file name is a sequence of lexemes that ends with its extension.  The *)
(* site has a static tree and a page tree; every file can be read, and     *)
(* the visit function of the caller may fail on any resource.              *)
(***************************************************************************)
VARIABLES wkFiles, wkStack, wkPc, wkErr, wkLog, reportedErrors

wkVars == <<wkFiles, wkStack, wkPc, wkErr, wkLog, reportedErrors>>

StaticDir == <<"static">>

PageDir == <<"pages">>

IndexName == <<"index", ".html">>

\* d.Readdirnames(-1) for the directories of the site.
DirNames(fpath) ==
  IF fpath = StaticDir THEN {<<".DS_Store">>, <<"s", ".css">>, <<"x", ".html">>}
  ELSE IF fpath = PageDir
    THEN {<<".DS_Store">>, <<"a", ".html">>, <<"b", ".html">>, <<"d">>, IndexName,
          <<"n", ".txt">>}
  ELSE {<<"c", ".html">>, IndexName}

\* fileInfo.IsDir()
IsDir(filePath) == filePath \in {StaticDir, PageDir, PageDir \o <<"/", "d">>}

\* fileInfo.ModTime()
FileModTime(filePath) == 1

\* ni < nj for the names of the site: the place of each in byte order.
NameRank(name) ==
  CASE name = <<".DS_Store">> -> 1
    [] name = <<"a", ".html">> -> 2
    [] name = <<"b", ".html">> -> 3
    [] name = <<"c", ".html">> -> 4
    [] name = <<"d">> -> 5
    [] name = IndexName -> 6
    [] name = <<"n", ".txt">> -> 7
    [] name = <<"s", ".css">> -> 8
    [] OTHER -> 9

\* The less function given to sort.Slice.
NameLess(ni, nj) ==
  IF ni = IndexName THEN FALSE
  ELSE IF nj = IndexName THEN TRUE
  ELSE NameRank(ni) < NameRank(nj)

RECURSIVE SortNames(_)
SortNames(names) ==
  IF names = {} THEN <<>>
  ELSE LET first == CHOOSE x \in names : \A y \in names : ~NameLess(y, x)
       IN  <<first>> \o SortNames(names \ {first})

isPageExt(name) == Len(name) > 0 /\ name[Len(name)] = ".html"

\* The files below a directory, and the page files of the site.
RECURSIVE FilesUnder(_)
FilesUnder(fpath) ==
  UNION {IF IsDir(fpath \o <<"/">> \o n) THEN FilesUnder(fpath \o <<"/">> \o n)
                                         ELSE {fpath \o <<"/">> \o n} :
         n \in DirNames(fpath)}

PageFiles == {f \in FilesUnder(PageDir) : isPageExt(f)}

\* What a page file of the walk may hold.
WalkFiles ==
  { ParsedFile(<<Text(<<"a">>)>>),
    ParsedFile(<<Command(<<"set">>, "path" :> <<"/", "b", ".html">>)>>),
    ParsedFile(<<Command(<<"include">>, EmptyMap)>>),
    UnparsableFile }

\* The frame of one call of visitDirectory: its arguments, the sorted names
\* and the index of the next one, the held pages and the index of the next.
DirFrame(fpath, upath, isPageDir) ==
  [fpath |-> fpath, upath |-> upath, isPageDir |-> isPageDir,
   names |-> SortNames(DirNames(fpath)), i |-> 1, held |-> <<>>, j |-> 1]

\* An entry of the log of the pass: processPage returned for the page found
\* under the path query, or the visit function returned for a resource.
Event(op, r, queryPath, p, ok) ==
  [op |-> op, file |-> r.FilePath, query |-> queryPath, path |-> r.Path, page |-> p,
   ok |-> ok]

WkInit ==
  /\ wkFiles \in [PageFiles -> WalkFiles]
  /\ wkStack = <<>>
  /\ wkPc = "start"
  /\ wkErr = ""
  /\ wkLog = <<>>
  /\ reportedErrors = {}

WkIdle ==
  /\ wkFiles = [f \in PageFiles |-> UnparsableFile]
  /\ wkStack = <<>>
  /\ wkPc = "off"
  /\ wkErr = ""
  /\ wkLog = <<>>
  /\ reportedErrors = {}

WkTop == wkStack[Len(wkStack)]

WkSetTop(fr) == [wkStack EXCEPT ![Len(wkStack)] = fr]

WkInNames == wkStack # <<>> /\ WkTop.i <= Len(WkTop.names)

WkInPages ==
  wkStack # <<>> /\ WkTop.i > Len(WkTop.names) /\ WkTop.j <= Len(WkTop.held)

WkName == WkTop.names[WkTop.i]

WkFilePath == WkTop.fpath \o <<"/">> \o WkName

\* Visit: newSite, then the call of visitDirectory for the static tree.
VisitStart ==
  /\ wkPc = "start"
  /\ wkStack' = <<DirFrame(StaticDir, <<>>, FALSE)>>
  /\ wkPc' = "static"
  /\ UNCHANGED <<wkFiles, wkErr, wkLog, reportedErrors, pages>>

\* if name == ".DS_Store" { continue }
SkipName ==
  /\ WkInNames
  /\ WkName = <<".DS_Store">>
  /\ wkStack' = WkSetTop([WkTop EXCEPT !.i = @ + 1])
  /\ UNCHANGED <<wkFiles, wkPc, wkErr, wkLog, reportedErrors, pages>>

\* if fileInfo.IsDir() { s.visitDirectory(filePath, upath+"/"+name, isPageDir) }
EnterDirectory ==
  /\ WkInNames
  /\ WkName # <<".DS_Store">>
  /\ IsDir(WkFilePath)
  /\ wkStack' = Append(WkSetTop([WkTop EXCEPT !.i = @ + 1]),
                       DirFrame(WkFilePath, WkTop.upath \o <<"/">> \o WkName,
                                WkTop.isPageDir))
  /\ UNCHANGED <<wkFiles, wkPc, wkErr, wkLog, reportedErrors, pages>>

\* if isPageDir && isPageExt(name) { pages = append(pages, r); continue }
HoldPage ==
  /\ WkInNames
  /\ WkName # <<".DS_Store">>
  /\ ~IsDir(WkFilePath)
  /\ WkTop.isPageDir /\ isPageExt(WkName)
  /\ LET r == NewResource(WkFilePath, WkTop.upath \o <<"/">> \o WkName,
                          FileModTime(WkFilePath))
     IN  wkStack' = WkSetTop([WkTop EXCEPT !.i = @ + 1, !.held = Append(@, r)])
  /\ UNCHANGED <<wkFiles, wkPc, wkErr, wkLog, reportedErrors, pages>>

\* visitFile(r) with the result of the visit function: an error of it ends
\* every visitDirectory on the stack and Visit.
VisitFile(r, queryPath, ok, continued) ==
  /\ wkLog' = Append(wkLog, Event("visit", r, queryPath, NilPage, ok))
  /\ IF ok THEN /\ wkStack' = continued
                /\ UNCHANGED <<wkPc, wkErr>>
           ELSE /\ wkStack' = <<>>
                /\ wkPc' = "done"
                /\ wkErr' = "visit function failed"

\* A file that is no page: visitFile at once.
VisitPlainFile ==
  /\ WkInNames
  /\ WkName # <<".DS_Store">>
  /\ ~IsDir(WkFilePath)
  /\ ~(WkTop.isPageDir /\ isPageExt(WkName))
  /\ \E ok \in BOOLEAN :
       LET r == NewResource(WkFilePath, WkTop.upath \o <<"/">> \o WkName,
                            FileModTime(WkFilePath))
       IN  VisitFile(r, r.Path, ok, WkSetTop([WkTop EXCEPT !.i = @ + 1]))
  /\ UNCHANGED <<wkFiles, reportedErrors, pages>>

\* One turn of "for _, r := range pages": the page fails, its message is
\* reported once and visitDirectory returns nil.
ProcessPageFails ==
  /\ WkInPages
  /\ \E ords \in ArgOrders(wkFiles[WkTop.held[WkTop.j].FilePath].actions) :
       LET r == WkTop.held[WkTop.j]
           out == ProcessPage(pages, r, wkFiles[r.FilePath], ords)
       IN  /\ out.err # NilError
           /\ reportedErrors' = reportedErrors \cup {out.err}
           /\ wkLog' = Append(wkLog, Event("process", r, r.Path, NilPage, FALSE))
           /\ wkStack' = WkSetTop([WkTop EXCEPT !.j = Len(WkTop.held) + 1])
  /\ UNCHANGED <<wkFiles, wkPc, wkErr, pages>>

\* One turn of "for _, r := range pages": the page is processed and handed
\* to visitFile.
ProcessPageVisits ==
  /\ WkInPages
  /\ \E ok \in BOOLEAN,
        ords \in ArgOrders(wkFiles[WkTop.held[WkTop.j].FilePath].actions) :
       LET r == WkTop.held[WkTop.j]
           out == ProcessPage(pages, r, wkFiles[r.FilePath], ords)
       IN  /\ out.err = NilError
           /\ pages' = out.pages
           /\ wkLog' = wkLog \o <<Event("process", out.r, r.Path, out.p, TRUE),
                                  Event("visit", out.r, r.Path, NilPage, ok)>>
           /\ IF ok THEN /\ wkStack' = WkSetTop([WkTop EXCEPT !.j = @ + 1])
                         /\ UNCHANGED <<wkPc, wkErr>>
                    ELSE /\ wkStack' = <<>>
                         /\ wkPc' = "done"
                         /\ wkErr' = "visit function failed"
  /\ UNCHANGED <<wkFiles, reportedErrors>>

\* visitDirectory returns nil to visitDirectory.
ReturnToParent ==
  /\ Len(wkStack) > 1
  /\ ~WkInNames /\ ~WkInPages
  /\ wkStack' = SubSeq(wkStack, 1, Len(wkStack) - 1)
  /\ UNCHANGED <<wkFiles, wkPc, wkErr, wkLog, reportedErrors, pages>>

\* visitDirectory of the static tree returns nil to Visit, which calls it
\* for the page tree.
StaticDone ==
  /\ wkPc = "static"
  /\ Len(wkStack) = 1
  /\ ~WkInNames /\ ~WkInPages
  /\ wkStack' = <<DirFrame(PageDir, <<>>, TRUE)>>
  /\ wkPc' = "pages"
  /\ UNCHANGED <<wkFiles, wkErr, wkLog, reportedErrors, pages>>

\* visitDirectory of the page tree returns nil to Visit, which returns.
VisitReturn ==
  /\ wkPc = "pages"
  /\ Len(wkStack) = 1
  /\ ~WkInNames /\ ~WkInPages
  /\ wkStack' = <<>>
  /\ wkPc' = "done"
  /\ wkErr' = IF reportedErrors # {} THEN "errors reported" ELSE ""
  /\ UNCHANGED <<wkFiles, wkLog, reportedErrors, pages>>

(***************************************************************************)
(* Action parser: Parse and the scanner.                                   *)
(*                                                                         *)
(* The input is a sequence of bytes, each a one-character string; every    *)
(* character of the model is one byte wide.  Positions are the byte        *)
(* offsets of the code, counted from 0.                                    *)
(***************************************************************************)
defaultLeftDelim == <<"<", "%">>

defaultRightDelim == <<"%", ">">>

\* unicode.IsLetter and unicode.IsDigit on the characters of the model.
IsLetter(r) == r \in {"a", "b", "f", "g", "q", "v", "x", "z"}

IsDigit(r) == r \in {"0", "1"}

\* utf8.RuneError, which utf8.DecodeRune returns at the end of the input.
RuneError == "RuneError"

\* r, _ := utf8.DecodeRune(s.input[pos:])
DecodeRune(input, pos) == IF pos < Len(input) THEN input[pos + 1] ELSE RuneError

\* bytes.HasPrefix(s.input[pos:], prefix)
HasPrefixAt(input, pos, prefix) ==
  /\ pos + Len(prefix) <= Len(input)
  /\ SubSeq(input, pos + 1, pos + Len(prefix)) = prefix

\* bytes.Index(s.input[pos:], sep): the least offset from pos, or -1.
IndexFrom(input, pos, sep) ==
  LET found == {i \in 0..(Len(input) - pos) : HasPrefixAt(input, pos + i, sep)}
  IN  IF found = {} THEN -1 ELSE SetMin(found)

\* unquoteTerminators of newScanner for the default delimiters; the back
\* quote, which is one of them, is no character of the model.
unquoteTerminators == {" ", "\t", "\r", "\n", "\"", "'", "=", "<", "%", ">"}

isActionNameStart(r) == IsLetter(r)

isActionName(r) == r = "-" \/ r = ":" \/ r = "_" \/ IsLetter(r) \/ IsDigit(r)

isArgumentNameStart(r) == IsLetter(r)

isArgumentName(r) == r = "-" \/ r = ":" \/ r = "_" \/ IsLetter(r) \/ IsDigit(r)

\* An error of the scanner: the message, the position given to s.loc and
\* the character printed as found.
NoScanError == [msg |-> "", pos |-> 0, found |-> ""]

ScanError(msg, pos, found) == [msg |-> msg, pos |-> pos, found |-> found]

\* A scanText that leaves the scanner on the left delimiter it has found.
ScanTextToDelim(input, pos) ==
  LET i == IndexFrom(input, pos, defaultLeftDelim)
  IN  IF i < 0
        THEN [text |-> SubSeq(input, pos + 1, Len(input)), more |-> FALSE,
              pos |-> Len(input)]
        ELSE [text |-> SubSeq(input, pos + 1, pos + i), more |-> TRUE, pos |-> pos + i]

\* scanner.scanText from pos: the text, whether an action follows, and the
\* position after it.
ScanText(input, pos) ==
  LET i == IndexFrom(input, pos, defaultLeftDelim)
  IN  IF i < 0
        THEN [text |-> SubSeq(input, pos + 1, Len(input)), more |-> FALSE,
              pos |-> Len(input)]
        ELSE [text |-> SubSeq(input, pos + 1, pos + i), more |-> TRUE,
              pos |-> pos + i + Len(defaultLeftDelim)]

\* scanner.skipSpace from pos: the position after the white space.
RECURSIVE SkipSpace(_, _)
SkipSpace(input, pos) ==
  IF pos < Len(input) /\ input[pos + 1] \in {"\r", "\n", " ", "\t"}
    THEN SkipSpace(input, pos + 1)
    ELSE pos

\* The loops of scanActionName and scanArgumentName: the first position
\* from i whose character does not belong to the name.
RECURSIVE ActionNameEnd(_, _)
ActionNameEnd(input, i) ==
  IF isActionName(DecodeRune(input, i)) THEN ActionNameEnd(input, i + 1) ELSE i

RECURSIVE ArgumentNameEnd(_, _)
ArgumentNameEnd(input, i) ==
  IF isArgumentName(DecodeRune(input, i)) THEN ArgumentNameEnd(input, i + 1) ELSE i

\* scanner.scanActionName at pos.
ScanActionName(input, pos) ==
  IF ~isActionNameStart(DecodeRune(input, pos))
    THEN [name |-> <<>>, pos |-> pos,
          err |-> ScanError("expected start of action name", pos, DecodeRune(input, pos))]
    ELSE LET i == ActionNameEnd(input, pos + 1)
         IN  [name |-> SubSeq(input, pos + 1, i), pos |-> i, err |-> NoScanError]

\* scanner.scanArgumentName at pos0.
ScanArgumentName(input, pos0) ==
  LET pos == SkipSpace(input, pos0)
      skipped == pos > pos0
      r == DecodeRune(input, pos)
      fail(msg, found) ==
        [name |-> <<>>, done |-> FALSE, pos |-> pos, err |-> ScanError(msg, pos0, found)]
  IN  IF HasPrefixAt(input, pos, defaultRightDelim)
        THEN [name |-> <<>>, done |-> TRUE, pos |-> pos + Len(defaultRightDelim),
              err |-> NoScanError]
      ELSE IF pos >= Len(input) THEN fail("reached EOF looking for argument name", "")
      ELSE IF ~skipped THEN fail("expected space before start of argument name", "")
      ELSE IF ~isArgumentNameStart(r) THEN fail("expected start of argument name", r)
      ELSE LET i == ArgumentNameEnd(input, pos + 1)
           IN  [name |-> SubSeq(input, pos + 1, i), done |-> FALSE, pos |-> i,
                err |-> NoScanError]

\* scanner.scanEqual at pos0.
ScanEqual(input, pos0) ==
  LET pos == SkipSpace(input, pos0)
      r == DecodeRune(input, pos)
  IN  IF HasPrefixAt(input, pos, defaultRightDelim)
        THEN [done |-> TRUE, pos |-> pos + Len(defaultRightDelim), err |-> NoScanError]
      ELSE IF pos >= Len(input)
        THEN [done |-> FALSE, pos |-> pos,
              err |-> ScanError("reached EOF looking for =", pos0, "")]
      ELSE IF r # "="
        THEN [done |-> FALSE, pos |-> pos, err |-> ScanError("expected =", pos0, r)]
      ELSE [done |-> FALSE, pos |-> pos + 1, err |-> NoScanError]

\* scanner.scanQuotedValue at pos, where the quote is.
ScanQuotedValue(input, pos) ==
  LET q == input[pos + 1]
      i == IndexFrom(input, pos + 1, <<q>>)
  IN  IF i < 0
        THEN [text |-> <<>>, pos |-> pos + 1,
              err |-> ScanError("reached EOF looking for close quote", pos, q)]
        ELSE [text |-> SubSeq(input, pos + 2, pos + 1 + i), pos |-> pos + 1 + i + 1,
              err |-> NoScanError]

\* The loop of scanUnquotedValue: the first position from i that holds a
\* terminator, or the length of the input.
RECURSIVE UnquotedValueEnd(_, _)
UnquotedValueEnd(input, i) ==
  IF i < Len(input) /\ input[i + 1] \notin unquoteTerminators
    THEN UnquotedValueEnd(input, i + 1)
    ELSE i

\* scanner.scanUnquotedValue at pos.
ScanUnquotedValue(input, pos) ==
  LET i == UnquotedValueEnd(input, pos)
  IN  IF i >= Len(input)
        THEN [text |-> <<>>, pos |-> pos,
              err |-> ScanError("reached EOF looking for end of value", pos, "")]
      ELSE IF i = pos
        THEN [text |-> <<>>, pos |-> pos,
              err |-> ScanError("expected value following =", pos, input[i + 1])]
      ELSE [text |-> SubSeq(input, pos + 1, i), pos |-> i, err |-> NoScanError]

\* html.UnescapeString on the values of the model, whose one entity is
\* the ampersand, with or without its semicolon.
RECURSIVE UnescapeString(_)
UnescapeString(val) ==
  IF val = <<>> THEN <<>>
  ELSE IF HasPrefixAt(val, 0, <<"&", "a", "m", "p", ";">>)
    THEN <<"&">> \o UnescapeString(SubSeq(val, 6, Len(val)))
  ELSE IF HasPrefixAt(val, 0, <<"&", "a", "m", "p">>)
    THEN <<"&">> \o UnescapeString(SubSeq(val, 5, Len(val)))
  ELSE <<Head(val)>> \o UnescapeString(Tail(val))

\* scanner.scanArgumentValue at pos0.
ScanArgumentValue(input, pos0) ==
  LET pos == SkipSpace(input, pos0)
      val == IF input[pos + 1] \in {"'", "\""} THEN ScanQuotedValue(input, pos)
                                               ELSE ScanUnquotedValue(input, pos)
  IN  IF pos >= Len(input)
        THEN [text |-> <<>>, pos |-> pos,
              err |-> ScanError("reached EOF looking for argument value", pos0, "")]
        ELSE [val EXCEPT !.text = UnescapeString(@)]

\* The value of an argument: its text and the position of s.pos after the
\* equal sign.
Value(text, pos) == [Text |-> text, pos |-> pos]

\* The loop of scanAction over the arguments, from pos with the arguments
\* args stored so far.
RECURSIVE ScanArguments(_, _, _)
ScanArguments(input, pos, args) ==
  LET n == ScanArgumentName(input, pos)
      e == ScanEqual(input, n.pos)
      v == ScanArgumentValue(input, e.pos)
  IN  IF n.err # NoScanError THEN [args |-> args, pos |-> n.pos, err |-> n.err]
      ELSE IF n.done THEN [args |-> args, pos |-> n.pos, err |-> NoScanError]
      ELSE IF e.err # NoScanError THEN [args |-> args, pos |-> e.pos, err |-> e.err]
      ELSE IF e.done THEN [args |-> args, pos |-> e.pos, err |-> NoScanError]
      ELSE IF v.err # NoScanError THEN [args |-> args, pos |-> v.pos, err |-> v.err]
      ELSE ScanArguments(input, v.pos, MapPut(args, n.name, Value(v.text, e.pos)))

NoAction == [Name |-> <<>>, Args |-> EmptyMap, Text |-> <<>>, pos |-> 0]

\* scanner.scanAction at pos0, after the left delimiter.
ScanAction(input, pos0) ==
  LET pos == SkipSpace(input, pos0)
      name == ScanActionName(input, pos)
      rest == ScanArguments(input, name.pos, EmptyMap)
  IN  IF name.err # NoScanError THEN [a |-> NoAction, pos |-> name.pos, err |-> name.err]
      ELSE IF rest.err # NoScanError THEN [a |-> NoAction, pos |-> rest.pos, err |-> rest.err]
      ELSE [a |-> [Name |-> name.name, Args |-> rest.args, Text |-> <<>>, pos |-> pos],
            pos |-> rest.pos, err |-> NoScanError]

\* bytes.LastIndex(s, "\n"): the offset of the last newline of s, or -1.
LastIndexNL(s) ==
  LET at == {i \in 1..Len(s) : s[i] = "\n"}
  IN  IF at = {} THEN -1 ELSE SetMax(at) - 1

\* func loc: the line and the column printed for position pos.
loc(input, pos) ==
  LET s == SubSeq(input, 1, pos)
      col == LastIndexNL(s)
  IN  [line |-> 1 + CountNL(s), col |-> IF col = -1 THEN pos ELSE pos - col]

\* One call of Parse: the input, and the actions and the error returned.
\* psPos is scanner.pos and psResult the slice result of scanner.scan; psSpans
\* records, for every action scanned, the offset of its left delimiter and the
\* position of the scanner after it.
VARIABLES psInput, psOut, psPc, psPos, psResult, psSpans

psVars == <<psInput, psOut, psPc, psPos, psResult, psSpans>>

MaxArgs == 2

RECURSIVE Flatten(_)
Flatten(pieces) == IF pieces = <<>> THEN <<>> ELSE Head(pieces) \o Flatten(Tail(pieces))

\* Arguments as they may be written after an action name, well formed and
\* not: white space, a name, and what follows the name.
Quoted(v) == <<"\"">> \o v \o <<"\"">>

Argument(space, name, rest) == space \o name \o rest

ArgumentNames ==
  { <<"f">>, <<"_", "f">>, <<"f", ".", "g">>, <<"f", "_", "1">>,
    <<"f", "-", "g", ":", "x">>, <<"1", "f">> }

ArgumentPieces ==
  {Argument(<<" ">>, n, <<"=">> \o Quoted(<<"b">>)) : n \in ArgumentNames}
  \cup
  { Argument(<<" ">>, <<"f">>, <<>>),
    Argument(<<" ">>, <<"g">>, <<"=">> \o Quoted(<<"a">>)),
    Argument(<<" ">>, <<"f">>, <<"+", "=">> \o Quoted(<<"a">>)),
    Argument(<<" ">>, <<"f">>, <<" ", "+", "=", " ">> \o Quoted(<<"z">>)),
    Argument(<<" ">>, <<"g">>, <<" ", "=", " ", "&", "a", "m", "p", ";">>),
    Argument(<<"\n">>, <<"g">>, <<"=", "'", "z", "'">>),
    Argument(<<>>, <<"f">>, <<"=">> \o Quoted(<<"b">>)),
    Argument(<<" ">>, <<"f">>, <<"=">>),
    Argument(<<" ">>, <<"f">>, <<"=", "\"", "b">>) }

\* A document with one action called a: text, the left delimiter, white
\* space, the name, the arguments, the end of the action, text.
Document(before, space, args, end, after) ==
  before \o defaultLeftDelim \o space \o <<"a">> \o Flatten(args) \o end \o after

\* The action a with the arguments args on the first line of a document.
OneAction(args) == Document(<<>>, <<>>, args, defaultRightDelim, <<>>)

Documents ==
  {Document(before, space, args, end, after) :
     before \in {<<>>, <<"x", "\n">>}, space \in {<<>>, <<" ">>},
     args \in SeqsUpTo(ArgumentPieces, MaxArgs),
     end \in {defaultRightDelim, <<" ">> \o defaultRightDelim, <<>>},
     after \in {<<>>, <<"\n", "x">>}}

\* Arguments whose quoted value holds a delimiter.
DelimiterPieces ==
  { Argument(<<" ">>, <<"f">>, <<"=">> \o Quoted(defaultRightDelim)),
    Argument(<<" ">>, <<"g">>, <<"=">> \o Quoted(defaultLeftDelim)),
    Argument(<<" ">>, <<"f">>, <<"=", "b">>) }

\* Documents with two actions and text before, between and after them.
TwoActions ==
  {Document(before, <<>>, <<v>>, defaultRightDelim, between)
     \o Document(<<>>, <<" ">>, <<w>>, defaultRightDelim, after) :
     before \in {<<>>, <<"x">>}, between \in {<<>>, <<"\n">>, <<"x", ">">>},
     after \in {<<>>, <<"%", ">">>}, v \in DelimiterPieces, w \in DelimiterPieces}

\* The bytes of the short inputs, which are given to Parse in every order.
ScanAlphabet == {"<", "%", ">", "a", " ", "="}

NoParse == [actions |-> <<>>, err |-> NoScanError]

PsInit ==
  /\ psInput \in Documents \cup TwoActions \cup SeqsUpTo(ScanAlphabet, MaxFileLen)
  /\ psOut = NoParse
  /\ psPc = "text"
  /\ psPos = 0
  /\ psResult = <<>>
  /\ psSpans = <<>>

PsIdle ==
  /\ psInput = <<>>
  /\ psOut = NoParse
  /\ psPc = "off"
  /\ psPos = 0
  /\ psResult = <<>>
  /\ psSpans = <<>>

\* scanner.scan, the first half of a turn of the loop: scanText from the
\* position of the scanner, and the text found, if any, appended to the result.
PsScanText ==
  /\ psPc = "text"
  /\ LET t == ScanText(psInput, psPos)
     IN  /\ psResult' = IF Len(t.text) > 0
                          THEN Append(psResult, [Name |-> TextAction, Args |-> EmptyMap,
                                                 Text |-> t.text, pos |-> psPos])
                          ELSE psResult
         /\ psPos' = t.pos
         /\ psPc' = IF t.more THEN "action" ELSE "return"
  /\ UNCHANGED <<psInput, psOut, psSpans>>

\* scanner.scan, the second half of a turn: scanAction, whose error ends Parse.
PsScanAction ==
  /\ psPc = "action"
  /\ LET a == ScanAction(psInput, psPos)
     IN  /\ psPos' = a.pos
         /\ IF a.err # NoScanError
              THEN /\ psOut' = [actions |-> <<>>, err |-> a.err]
                   /\ psPc' = "done"
                   /\ UNCHANGED <<psResult, psSpans>>
              ELSE /\ psResult' = Append(psResult, a.a)
                   /\ psSpans' = Append(psSpans, [from |-> psPos - Len(defaultLeftDelim),
                                                  to |-> a.pos])
                   /\ psPc' = "text"
                   /\ UNCHANGED psOut
  /\ UNCHANGED psInput

\* return result, nil
PsReturn ==
  /\ psPc = "return"
  /\ psOut' = [actions |-> psResult, err |-> NoScanError]
  /\ psPc' = "done"
  /\ UNCHANGED <<psInput, psPos, psResult, psSpans>>

(***************************************************************************)
(* The live-reload server: serveResource, serveWait, serveReload and       *)
(* loadResources.                                                          *)
(*                                                                         *)
(* A map of resources is an object of the heap svMaps, named by the number *)
(* of the build pass that made it; map 0 is the one run loaded before the  *)
(* server listens.  A map records the paths the pass has put into it and   *)
(* whether loadResources is still filling it, has returned it without      *)
(* error, or has returned it with an error.  The goroutines of Reloaders   *)
(* serve reload requests and the one of Readers serves resource requests,  *)
(* one request after the other.                                            *)
(*                                                                         *)
(* A wait channel is an object of the heap svChans, named by the number of *)
(* channels made before it; channel 0 is the one run makes.  A channel     *)
(* records how many times it has been closed and the pass of the reload    *)
(* that closed it, and the pass of the reload that made it.  The goroutine *)
(* of Waiters serves one wait request.                                     *)
(***************************************************************************)
VARIABLES svMaps, svNext, svResources, svMu, svLoad, svReq, svWait, svChans, svWt

\* s.wait, the channels and the wait requests.
swVars == <<svWait, svChans, svWt>>

svVars == <<svMaps, svNext, svResources, svMu, svLoad, svReq, swVars>>

MaxPasses == 2

SvPaths == {"/", "/a"}

Reloaders == {"r1", "r2"}

Readers == {"q1"}

Waiters == {"w1"}

NoMap == 0 - 1

NilResource == [m |-> NoMap, path |-> ""]

EmptyResources == [state |-> "none", paths |-> {}]

NoReload == [pc |-> "idle", m |-> NoMap]

NoRequest == [pc |-> "idle", path |-> "", seen |-> NoMap, seenState |-> "none",
              snap |-> {}, r |-> NilResource]

NoChan == 0 - 1

\* make(chan struct{}) by the reload of pass m, or by run for NoMap.
NewChan(m) == [closes |-> 0, by |-> NoMap, made |-> m]

NoWait == [pc |-> "lock", wait |-> NoChan, sent |-> FALSE]

\* A reload that closes s.wait and leaves it in place.
KeepWaitChannel(current) == current

\* s.wait = make(chan struct{}): the channel after the current one.
MakeWaitChannel(current) == current + 1

\* A server that fills the map the requests read.
FillInPlace(current, fresh) == current

\* resources := make(map[string]*site.Resource)
NewResourcesMap(current, fresh) == fresh

\* The server when run starts to listen: s.resources is what the first
\* loadResources returned, with or without an error.
SvInit ==
  /\ \E ps \in SUBSET SvPaths, st \in {"ok", "failed"} :
       svMaps = [i \in 0..MaxPasses |->
                   IF i = 0 THEN [state |-> st, paths |-> ps] ELSE EmptyResources]
  /\ svNext = 1
  /\ svResources = 0
  /\ svMu = ""
  /\ svLoad = [p \in Reloaders |-> NoReload]
  /\ svReq = [q \in Readers |-> NoRequest]
  /\ svWait = 0
  /\ svChans = [c \in 0..MaxPasses |-> NewChan(NoMap)]
  /\ svWt = [w \in Waiters |-> [NoWait EXCEPT !.pc = "off"]]

\* The server when run starts to listen after a first pass without error,
\* with wait requests to come and no resource request.
SwInit ==
  /\ svMaps = [i \in 0..MaxPasses |->
                 IF i = 0 THEN [state |-> "ok", paths |-> SvPaths] ELSE EmptyResources]
  /\ svNext = 1
  /\ svResources = 0
  /\ svMu = ""
  /\ svLoad = [p \in Reloaders |-> NoReload]
  /\ svReq = [q \in Readers |-> [NoRequest EXCEPT !.pc = "off"]]
  /\ svWait = 0
  /\ svChans = [c \in 0..MaxPasses |-> NewChan(NoMap)]
  /\ svWt = [w \in Waiters |-> NoWait]

SvIdle ==
  /\ svMaps = [i \in 0..MaxPasses |-> EmptyResources]
  /\ svNext = 0
  /\ svResources = NoMap
  /\ svMu = ""
  /\ svLoad = [p \in Reloaders |-> [pc |-> "off", m |-> NoMap]]
  /\ svReq = [q \in Readers |-> [NoRequest EXCEPT !.pc = "off"]]
  /\ svWait = NoChan
  /\ svChans = [c \in 0..MaxPasses |-> NewChan(NoMap)]
  /\ svWt = [w \in Waiters |-> [NoWait EXCEPT !.pc = "off"]]

\* serveReload calls loadResources, which makes its map.
LoadResourcesStart(p) ==
  /\ svLoad[p].pc = "idle"
  /\ svNext <= MaxPasses
  /\ LET m == NewResourcesMap(svResources, svNext)
     IN  /\ svMaps' = [svMaps EXCEPT ![m].state = "filling"]
         /\ svLoad' = [svLoad EXCEPT ![p] = [pc |-> "visit", m |-> m]]
  /\ svNext' = svNext + 1
  /\ UNCHANGED <<swVars, svResources, svMu, svReq>>

\* The function loadResources gives to site.Visit: resources[r.Path] = r.
VisitResource(p) ==
  /\ svLoad[p].pc = "visit"
  /\ \E path \in SvPaths \ svMaps[svLoad[p].m].paths :
       svMaps' = [svMaps EXCEPT ![svLoad[p].m].paths = @ \cup {path}]
  /\ UNCHANGED <<swVars, svNext, svResources, svMu, svLoad, svReq>>

\* site.Visit returns, and with it loadResources; with an error serveReload
\* logs it and returns.
LoadResourcesReturn(p) ==
  /\ svLoad[p].pc = "visit"
  /\ \E err \in BOOLEAN :
       /\ svMaps' = [svMaps EXCEPT ![svLoad[p].m].state = IF err THEN "failed" ELSE "ok"]
       /\ svLoad' = [svLoad EXCEPT ![p] = IF err THEN NoReload
                                               ELSE [pc |-> "lock", m |-> svLoad[p].m]]
  /\ UNCHANGED <<swVars, svNext, svResources, svMu, svReq>>

\* s.mu.Lock() of serveReload
ReloadLock(p) ==
  /\ svLoad[p].pc = "lock"
  /\ svMu = ""
  /\ svMu' = p
  /\ svLoad' = [svLoad EXCEPT ![p].pc = "assign"]
  /\ UNCHANGED <<swVars, svMaps, svNext, svResources, svReq>>

\* s.resources = resources
ReloadAssign(p) ==
  /\ svLoad[p].pc = "assign"
  /\ svResources' = svLoad[p].m
  /\ svLoad' = [svLoad EXCEPT ![p].pc = "close"]
  /\ UNCHANGED <<swVars, svMaps, svNext, svMu, svReq>>

\* close(s.wait)
ReloadClose(p) ==
  /\ svLoad[p].pc = "close"
  /\ svChans' = [svChans EXCEPT ![svWait] =
                   [@ EXCEPT !.closes = @ + 1, !.by = svLoad[p].m]]
  /\ svLoad' = [svLoad EXCEPT ![p].pc = "make"]
  /\ UNCHANGED <<svMaps, svNext, svResources, svMu, svReq, svWait, svWt>>

\* s.wait = make(chan struct{})
ReloadMake(p) ==
  /\ svLoad[p].pc = "make"
  /\ LET c == MakeWaitChannel(svWait)
     IN  /\ svWait' = c
         /\ svChans' = [svChans EXCEPT ![c] = IF c = svWait THEN @ ELSE NewChan(svLoad[p].m)]
  /\ svLoad' = [svLoad EXCEPT ![p].pc = "unlock"]
  /\ UNCHANGED <<svMaps, svNext, svResources, svMu, svReq, svWt>>

\* s.mu.Unlock() of serveReload
ReloadUnlock(p) ==
  /\ svLoad[p].pc = "unlock"
  /\ svMu' = ""
  /\ svLoad' = [svLoad EXCEPT ![p] = NoReload]
  /\ UNCHANGED <<swVars, svMaps, svNext, svResources, svReq>>

\* A request for a path arrives at serveResource.
ServeResourceStart(q) ==
  /\ svReq[q].pc = "idle"
  /\ \E path \in SvPaths :
       svReq' = [svReq EXCEPT ![q] = [NoRequest EXCEPT !.pc = "lock", !.path = path]]
  /\ UNCHANGED <<swVars, svMaps, svNext, svResources, svMu, svLoad>>

\* s.mu.Lock() of serveResource
ServeResourceLock(q) ==
  /\ svReq[q].pc = "lock"
  /\ svMu = ""
  /\ svMu' = q
  /\ svReq' = [svReq EXCEPT ![q].pc = "read"]
  /\ UNCHANGED <<swVars, svMaps, svNext, svResources, svLoad>>

\* r := s.resources[path]; the request remembers the map it read, and the
\* state and the paths the map had at that moment.
ServeResourceRead(q) ==
  /\ svReq[q].pc = "read"
  /\ LET m == svMaps[svResources]
     IN  svReq' = [svReq EXCEPT ![q] =
                     [pc |-> "unlock", path |-> svReq[q].path, seen |-> svResources,
                      seenState |-> m.state, snap |-> m.paths,
                      r |-> IF svReq[q].path \in m.paths
                              THEN [m |-> svResources, path |-> svReq[q].path]
                              ELSE NilResource]]
  /\ UNCHANGED <<swVars, svMaps, svNext, svResources, svMu, svLoad>>

\* s.mu.Unlock() of serveResource
ServeResourceUnlock(q) ==
  /\ svReq[q].pc = "unlock"
  /\ svMu' = ""
  /\ svReq' = [svReq EXCEPT ![q].pc = "respond"]
  /\ UNCHANGED <<swVars, svMaps, svNext, svResources, svLoad>>

\* The response is written from r, or Not Found for nil.
ServeResourceRespond(q) ==
  /\ svReq[q].pc = "respond"
  /\ svReq' = [svReq EXCEPT ![q] = NoRequest]
  /\ UNCHANGED <<swVars, svMaps, svNext, svResources, svMu, svLoad>>

\* s.mu.Lock() of serveWait, which has set the headers of its response.
ServeWaitLock(w) ==
  /\ svWt[w].pc = "lock"
  /\ svMu = ""
  /\ svMu' = w
  /\ svWt' = [svWt EXCEPT ![w].pc = "read"]
  /\ UNCHANGED <<svMaps, svNext, svResources, svLoad, svReq, svWait, svChans>>

\* wait := s.wait
ServeWaitRead(w) ==
  /\ svWt[w].pc = "read"
  /\ svWt' = [svWt EXCEPT ![w].pc = "unlock", ![w].wait = svWait]
  /\ UNCHANGED <<svMaps, svNext, svResources, svMu, svLoad, svReq, svWait, svChans>>

\* s.mu.Unlock() of serveWait
ServeWaitUnlock(w) ==
  /\ svWt[w].pc = "unlock"
  /\ svMu' = ""
  /\ svWt' = [svWt EXCEPT ![w].pc = "select"]
  /\ UNCHANGED <<svMaps, svNext, svResources, svLoad, svReq, svWait, svChans>>

\* case <-wait: the receive from a closed channel; "data: done" is written.
ServeWaitDone(w) ==
  /\ svWt[w].pc = "select"
  /\ svChans[svWt[w].wait].closes > 0
  /\ svWt' = [svWt EXCEPT ![w].pc = "done", ![w].sent = TRUE]
  /\ UNCHANGED <<svMaps, svNext, svResources, svMu, svLoad, svReq, svWait, svChans>>

\* case <-req.Context().Done(): the client has gone.
ServeWaitGone(w) ==
  /\ svWt[w].pc = "select"
  /\ svWt' = [svWt EXCEPT ![w].pc = "done"]
  /\ UNCHANGED <<svMaps, svNext, svResources, svMu, svLoad, svReq, svWait, svChans>>

(***************************************************************************)
(* The order of the uploads: sortUploads.                                  *)
(*                                                                         *)
(* A resource to upload has a path and an update reason.  The paths are    *)
(* those of UploadPaths, listed in ascending byte order, so that one path  *)
(* is less than another when it stands before it in the list.              *)
(***************************************************************************)
VARIABLES suIn, suOut, suPc

suVars == <<suIn, suOut, suPc>>

MaxUploads == 3

UploadPaths == <<"/a.css", "/a.html", "/b.jpg", "/b.png", "/c.html", "/c.jpg">>

updateNew == "N"

UpdateReasons == {"", updateNew}

PathIndex(upath) == CHOOSE i \in 1..Len(UploadPaths) : UploadPaths[i] = upath

\* resources[i].Path < resources[j].Path
PathLess(a, b) == PathIndex(a) < PathIndex(b)

\* mime.TypeByExtension(path.Ext(p)), without its parameters.
TypeByExtension(upath) ==
  IF upath \in {"/a.css"} THEN "text/css"
  ELSE IF upath \in {"/a.html", "/c.html"} THEN "text/html"
  ELSE IF upath \in {"/b.jpg", "/c.jpg"} THEN "image/jpeg"
  ELSE "image/png"

lastTypes == {"text/html", "text/css", "application/javascript"}

\* The less function sortUploads gives to sort.Slice.
UploadLess(a, b) ==
  LET ni == a.UpdateReason = updateNew
      nj == b.UpdateReason = updateNew
      li == TypeByExtension(a.Path) \in lastTypes
      lj == TypeByExtension(b.Path) \in lastTypes
  IN  IF ni # nj THEN ni
      ELSE IF ni THEN PathLess(a.Path, b.Path)
      ELSE IF li # lj THEN lj
      ELSE PathLess(a.Path, b.Path)

\* sort.Slice(resources, less) for resources of different paths, which less
\* orders totally: the one arrangement in which no element is less than an
\* earlier one.
sortUploads(resources) ==
  LET elems == {resources[i] : i \in 1..Len(resources)}
  IN  CHOOSE s \in Perms(elems) :
        \A i, j \in 1..Len(resources) : i < j => ~UploadLess(s[j], s[i])

\* The slices of resources with different paths.
UploadSlices ==
  {s \in SeqsUpTo([Path : {UploadPaths[i] : i \in 1..Len(UploadPaths)},
                   UpdateReason : UpdateReasons], MaxUploads) :
     \A i, j \in 1..Len(s) : s[i].Path = s[j].Path => i = j}

SuInit ==
  /\ suIn \in UploadSlices
  /\ suOut = <<>>
  /\ suPc = "call"

SuIdle ==
  /\ suIn = <<>>
  /\ suOut = <<>>
  /\ suPc = "off"

SuCall ==
  /\ suPc = "call"
  /\ suOut' = sortUploads(suIn)
  /\ suPc' = "done"
  /\ UNCHANGED suIn

(***************************************************************************)
(* The choice of an image: computeSrcSet.                                  *)
(*                                                                         *)
(* An image has a path and the width and height of its image.Config.  A    *)
(* float64 scale is kept as the fraction n/d of two integers (d = 0 for    *)
(* math.MaxFloat64); fractions of such small integers compare as their     *)
(* float64 quotients do, and the product of a size and a scale is taken    *)
(* as exact before it is truncated.                                        *)
(***************************************************************************)
VARIABLES ssIn, ssMaxWidth, ssMaxHeight, ssOut, ssPc

ssVars == <<ssIn, ssMaxWidth, ssMaxHeight, ssOut, ssPc>>

MaxSize == 3

ImageNames == <<"a.jpg", "b.jpg", "c.jpg">>

MaxFloat64 == [n |-> 1, d |-> 0]

One == [n |-> 1, d |-> 1]

ScaleLess(x, y) == x.n * y.d < y.n * x.d

ScaleLessEq(x, y) == x.n * y.d <= y.n * x.d

\* int(float64(size) * scale)
Scaled(size, scale) == (size * scale.n) \div scale.d

\* scale := float64(maxWidth) / float64(config.Width), replaced by scaleH
\* when maxHeight > 0 and scaleH <= 1 && scaleH < scale.
ImageScale(config, maxWidth, maxHeight) ==
  LET scale == [n |-> maxWidth, d |-> config.Width]
      scaleH == [n |-> maxHeight, d |-> config.Height]
  IN  IF maxHeight > 0 /\ ScaleLessEq(scaleH, One) /\ ScaleLess(scaleH, scale)
        THEN scaleH ELSE scale

\* A choice that keeps the first image that does not need to be stretched.
FirstFit(bestScale, scale) == ScaleLess(One, bestScale) /\ ScaleLess(scale, bestScale)

\* (bestScale > 1 && scale < bestScale) ||
\*   (bestScale < 1 && scale > bestScale && scale <= 1)
IsBetter(bestScale, scale) ==
  \/ ScaleLess(One, bestScale) /\ ScaleLess(scale, bestScale)
  \/ ScaleLess(bestScale, One) /\ ScaleLess(bestScale, scale) /\ ScaleLessEq(scale, One)

\* The loop "for i, config := range configs" from image i on.
RECURSIVE SrcSetLoop(_, _, _, _, _, _)
SrcSetLoop(images, maxWidth, maxHeight, i, bestIndex, bestScale) ==
  IF i > Len(images) THEN [bestIndex |-> bestIndex, bestScale |-> bestScale]
  ELSE LET scale == ImageScale(images[i], maxWidth, maxHeight)
       IN  IF IsBetter(bestScale, scale)
             THEN SrcSetLoop(images, maxWidth, maxHeight, i + 1, i, scale)
             ELSE SrcSetLoop(images, maxWidth, maxHeight, i + 1, bestIndex, bestScale)

NoSrcSet == [err |-> "", Src |-> "", Width |-> 0, Height |-> 0, SrcSet |-> <<>>]

\* computeSrcSet(fpaths, upaths, configs, maxWidth, maxHeight) for at least
\* one image.
computeSrcSet(images, maxWidth, maxHeight) ==
  IF maxWidth <= 0
    THEN [NoSrcSet EXCEPT !.err = "maxWidth must be greater than zero"]
  ELSE IF \E i \in 1..Len(images) : images[i].Width <= 0 \/ images[i].Height <= 0
    THEN [NoSrcSet EXCEPT !.err = "no width or height"]
  ELSE LET best == SrcSetLoop(images, maxWidth, maxHeight, 1, 1, MaxFloat64)
           bestScale == IF ScaleLess(One, best.bestScale) THEN One ELSE best.bestScale
           img == images[best.bestIndex]
       IN  [err |-> "", Src |-> img.Src,
            Width |-> Scaled(img.Width, bestScale),
            Height |-> Scaled(img.Height, bestScale),
            SrcSet |-> [i \in 1..Len(images) |-> <<images[i].Src, images[i].Width>>]]

\* The lists of one to three images, each with its own path; an image that
\* was not decoded has no width.
ImageLists ==
  LET sizes == [Width : 1..MaxSize, Height : 1..MaxSize] \cup {[Width |-> 0, Height |-> 1]}
  IN  UNION {{[i \in 1..n |-> [Src |-> ImageNames[i], Width |-> c[i].Width,
                               Height |-> c[i].Height]] : c \in [1..n -> sizes]} :
             n \in 1..Len(ImageNames)}

SsInit ==
  /\ ssIn \in ImageLists
  /\ ssMaxWidth \in 0..MaxSize
  /\ ssMaxHeight \in 0..MaxSize
  /\ ssOut = NoSrcSet
  /\ ssPc = "call"

SsIdle ==
  /\ ssIn = <<>>
  /\ ssMaxWidth = 0
  /\ ssMaxHeight = 0
  /\ ssOut = NoSrcSet
  /\ ssPc = "off"

SsCall ==
  /\ ssPc = "call"
  /\ ssOut' = computeSrcSet(ssIn, ssMaxWidth, ssMaxHeight)
  /\ ssPc' = "done"
  /\ UNCHANGED <<ssIn, ssMaxWidth, ssMaxHeight>>

(***************************************************************************)
(* The pages of a pattern: pageFuncs.Glob after globPages.                 *)
(*                                                                         *)
(* A page is known by its Created time, and no two pages have the same.    *)
(* A slice expression of Go panics unless 0 <= low <= high <= cap; the     *)
(* slices of Glob have no spare capacity that the bounds could reach.      *)
(***************************************************************************)
VARIABLES glPages, glSort, glLimit, glOut, glPc

glVars == <<glPages, glSort, glLimit, glOut, glPc>>

MaxGlob == 3

MaxLimit == 4

\* The fields of pageFuncs.Sort: none, "created" and "-created".
SortFields == {"", "created", "-created"}

\* pageLessFuncs["created"]
CreatedLess(a, b) == a.Created < b.Created

\* sort.Slice(pages, lessFn) when o.lessFn is set, for the field of Sort.
SortPages(ps, field) ==
  IF field = "" THEN ps
  ELSE LET elems == {ps[i] : i \in 1..Len(ps)}
       IN  CHOOSE s \in Perms(elems) :
             \A i, j \in 1..Len(ps) :
               i < j => IF field = "-created" THEN CreatedLess(s[j], s[i])
                                              ELSE CreatedLess(s[i], s[j])

NoGlob == [ok |-> TRUE, pages |-> <<>>]

\* pages[low:high], or the panic of a slice bounds out of range.
SliceExpr(ps, low, high) ==
  IF 0 <= low /\ low <= high /\ high <= Len(ps)
    THEN [ok |-> TRUE, pages |-> SubSeq(ps, low + 1, high)]
    ELSE [ok |-> FALSE, pages |-> <<>>]

\* The limit of Glob applied to the pages.
GlobLimit(ps, limit) ==
  IF limit > 0
    THEN IF limit < Len(ps) THEN SliceExpr(ps, 0, limit) ELSE [ok |-> TRUE, pages |-> ps]
  ELSE IF limit < 0
    THEN IF limit < Len(ps) THEN SliceExpr(ps, Len(ps) - limit, Len(ps))
                            ELSE [ok |-> TRUE, pages |-> ps]
  ELSE [ok |-> TRUE, pages |-> ps]

\* pageFuncs.Glob on the pages globPages has returned.
Glob(ps, field, limit) == GlobLimit(SortPages(ps, field), limit)

\* The lists of different pages, in any order.
PageLists ==
  {s \in SeqsUpTo([Created : 1..MaxGlob], MaxGlob) :
     \A i, j \in 1..Len(s) : s[i] = s[j] => i = j}

GlInit ==
  /\ glPages \in PageLists
  /\ glSort \in SortFields
  /\ glLimit \in (0 - MaxLimit) .. MaxLimit
  /\ glOut = NoGlob
  /\ glPc = "call"

GlIdle ==
  /\ glPages = <<>>
  /\ glSort = ""
  /\ glLimit = 0
  /\ glOut = NoGlob
  /\ glPc = "off"

GlCall ==
  /\ glPc = "call"
  /\ glOut' = Glob(glPages, glSort, glLimit)
  /\ glPc' = "done"
  /\ UNCHANGED <<glPages, glSort, glLimit>>

(***************************************************************************)
(* Specifications.                                                         *)
(***************************************************************************)
\* The variables of the functions that are called on their own.
fnVars == <<suVars, ssVars, mnVars, glVars>>

FnIdle == SuIdle /\ SsIdle /\ MnIdle /\ GlIdle

vars == <<fmVars, lyVars, ldVars, pages, pgVars, wkVars, psVars, svVars, fnVars>>

NoSite == pages = EmptyMap /\ PgIdle /\ WkIdle /\ PsIdle /\ SvIdle /\ FnIdle

\* The front-matter reader alone.
InitFront == FmInit /\ LyIdle /\ LdIdle /\ NoSite

NextFront == FmCall /\ UNCHANGED <<lyVars, ldVars, pages, pgVars, wkVars, psVars, svVars, fnVars>>

SpecFront == InitFront /\ [][NextFront]_vars

\* The layout resolver alone.
InitLayout == LyInit /\ FmIdle /\ LdIdle /\ NoSite

RestLayout == UNCHANGED <<fmVars, ldVars, pages, pgVars, wkVars, psVars, svVars, fnVars>>

NextLayout ==
  \/ ReadResourceStart /\ RestLayout
  \/ ReadTemplateEnter /\ RestLayout
  \/ ReadTemplateReturn /\ RestLayout
  \/ ReadResourceFinish /\ RestLayout

SpecLayout == InitLayout /\ [][NextLayout]_vars

\* The template loader alone, used by the goroutines of Procs.
InitLoader == LdInit /\ FmIdle /\ LyIdle /\ NoSite

RestLoader == UNCHANGED <<fmVars, lyVars, pages, pgVars, wkVars, psVars, svVars, fnVars>>

NextLoader ==
  \E g \in Procs :
     \/ LoaderGet(g) /\ RestLoader
     \/ OnceDo(g) /\ RestLoader
     \/ LoadTreesStart(g) /\ RestLoader
     \/ MetaImport(g) /\ RestLoader
     \/ GetTreesReturn(g) /\ RestLoader
     \/ LoadTreesReturn(g) /\ RestLoader
     \/ LoaderGetReturn(g) /\ RestLoader

SpecLoader == InitLoader /\ [][NextLoader]_vars

\* The template loader used by the goroutines of Procs at the same time.
InitShared == LdInitShared /\ FmIdle /\ LyIdle /\ NoSite

SpecShared == InitShared /\ [][NextLoader]_vars

\* One call of processPage on a site with an empty registry.
InitPage == PgInit /\ FmIdle /\ LyIdle /\ LdIdle /\ WkIdle /\ PsIdle /\ SvIdle /\ FnIdle

NextPage == PgCall /\ UNCHANGED <<fmVars, lyVars, ldVars, wkVars, psVars, svVars, fnVars>>

SpecPage == InitPage /\ [][NextPage]_vars

\* One build pass over the site.
InitWalk ==
  /\ WkInit /\ pages = EmptyMap /\ FmIdle /\ LyIdle /\ LdIdle /\ PgIdle /\ PsIdle
  /\ SvIdle /\ FnIdle

RestWalk == UNCHANGED <<fmVars, lyVars, ldVars, pgVars, psVars, svVars, fnVars>>

NextWalk ==
  \/ VisitStart /\ RestWalk
  \/ SkipName /\ RestWalk
  \/ EnterDirectory /\ RestWalk
  \/ HoldPage /\ RestWalk
  \/ VisitPlainFile /\ RestWalk
  \/ ProcessPageFails /\ RestWalk
  \/ ProcessPageVisits /\ RestWalk
  \/ ReturnToParent /\ RestWalk
  \/ StaticDone /\ RestWalk
  \/ VisitReturn /\ RestWalk

SpecWalk == InitWalk /\ [][NextWalk]_vars

\* One call of Parse.
InitParse ==
  /\ PsInit /\ FmIdle /\ LyIdle /\ LdIdle /\ pages = EmptyMap /\ PgIdle /\ WkIdle
  /\ SvIdle /\ FnIdle

RestParse == UNCHANGED <<fmVars, lyVars, ldVars, pages, pgVars, wkVars, svVars, fnVars>>

NextParse ==
  \/ PsScanText /\ RestParse
  \/ PsScanAction /\ RestParse
  \/ PsReturn /\ RestParse

SpecParse == InitParse /\ [][NextParse]_vars

\* The live-reload server and its requests.
InitServe ==
  /\ SvInit /\ FmIdle /\ LyIdle /\ LdIdle /\ pages = EmptyMap /\ PgIdle /\ WkIdle
  /\ PsIdle /\ FnIdle

RestServe == UNCHANGED <<fmVars, lyVars, ldVars, pages, pgVars, wkVars, psVars, fnVars>>

NextServe ==
  \/ \E p \in Reloaders :
       \/ LoadResourcesStart(p) /\ RestServe
       \/ VisitResource(p) /\ RestServe
       \/ LoadResourcesReturn(p) /\ RestServe
       \/ ReloadLock(p) /\ RestServe
       \/ ReloadAssign(p) /\ RestServe
       \/ ReloadClose(p) /\ RestServe
       \/ ReloadMake(p) /\ RestServe
       \/ ReloadUnlock(p) /\ RestServe
  \/ \E q \in Readers :
       \/ ServeResourceStart(q) /\ RestServe
       \/ ServeResourceLock(q) /\ RestServe
       \/ ServeResourceRead(q) /\ RestServe
       \/ ServeResourceUnlock(q) /\ RestServe
       \/ ServeResourceRespond(q) /\ RestServe

SpecServe == InitServe /\ [][NextServe]_vars

\* The live-reload server and its wait requests.
InitWait ==
  /\ SwInit /\ FmIdle /\ LyIdle /\ LdIdle /\ pages = EmptyMap /\ PgIdle /\ WkIdle
  /\ PsIdle /\ FnIdle

NextWait ==
  \/ \E p \in Reloaders :
       \/ LoadResourcesStart(p) /\ RestServe
       \/ VisitResource(p) /\ RestServe
       \/ LoadResourcesReturn(p) /\ RestServe
       \/ ReloadLock(p) /\ RestServe
       \/ ReloadAssign(p) /\ RestServe
       \/ ReloadClose(p) /\ RestServe
       \/ ReloadMake(p) /\ RestServe
       \/ ReloadUnlock(p) /\ RestServe
  \/ \E w \in Waiters :
       \/ ServeWaitLock(w) /\ RestServe
       \/ ServeWaitRead(w) /\ RestServe
       \/ ServeWaitUnlock(w) /\ RestServe
       \/ ServeWaitDone(w) /\ RestServe
       \/ ServeWaitGone(w) /\ RestServe

\* The receive from a closed channel is ready, and the goroutine that
\* selects on it runs.
SpecWait ==
  /\ InitWait /\ [][NextWait]_vars
  /\ \A w \in Waiters : WF_vars(ServeWaitDone(w) /\ RestServe)

\* The site without a call in progress, for the functions called on their
\* own.
SiteIdle == FmIdle /\ LyIdle /\ LdIdle /\ pages = EmptyMap /\ PgIdle /\ WkIdle /\ PsIdle /\ SvIdle

siteVars == <<fmVars, lyVars, ldVars, pages, pgVars, wkVars, psVars, svVars>>

\* One call of sortUploads.
InitSort == SuInit /\ SiteIdle /\ SsIdle /\ MnIdle /\ GlIdle

NextSort == SuCall /\ UNCHANGED <<siteVars, ssVars, mnVars, glVars>>

SpecSort == InitSort /\ [][NextSort]_vars

\* One call of computeSrcSet.
InitSrcSet == SsInit /\ SiteIdle /\ SuIdle /\ MnIdle /\ GlIdle

NextSrcSet == SsCall /\ UNCHANGED <<siteVars, suVars, mnVars, glVars>>

SpecSrcSet == InitSrcSet /\ [][NextSrcSet]_vars

\* One call of Minify.
InitMinify == MnInit /\ SiteIdle /\ SuIdle /\ SsIdle /\ GlIdle

RestMinify == UNCHANGED <<siteVars, suVars, ssVars, glVars>>

NextMinify ==
  \/ MinifyNext /\ RestMinify
  \/ MinifyReturn /\ RestMinify

SpecMinify == InitMinify /\ [][NextMinify]_vars

\* One call of Glob.
InitGlob == GlInit /\ SiteIdle /\ SuIdle /\ SsIdle /\ MnIdle

NextGlob == GlCall /\ UNCHANGED <<siteVars, suVars, ssVars, mnVars>>

SpecGlob == InitGlob /\ [][NextGlob]_vars

(***************************************************************************)
(* Claims about the front-matter extractor.                                *)
(***************************************************************************)
\* 1-based line of the byte at index i: 1 plus the newlines that precede it.
LineOf(data, i) == CountNL(SubSeq(data, 1, i - 1)) + 1

\* C8: when readFileWithFrontMatter succeeds on a file with front matter, the
\* returned buffer has the length of the file, a newline exactly where the
\* file has one, a space at every other offset of the front-matter span, and
\* the file's own byte at every offset after the span.
C8_MaskKeepsLayout ==
  (fmPc = "done" /\ fmHas) =>
     /\ Len(fmOut) = Len(fmData)
     /\ fmEnd \in 1..Len(fmData)
     /\ \A i \in 1..Len(fmData) :
          /\ (fmOut[i] = "\n") <=> (fmData[i] = "\n")
          /\ (i <= fmEnd /\ fmData[i] # "\n") => fmOut[i] = " "
          /\ (i > fmEnd) => fmOut[i] = fmData[i]

\* A file with a newline inside the span and a body after the span.
C8_Witness ==
  /\ fmPc = "done" /\ fmHas
  /\ fmEnd < Len(fmData)
  /\ \E i \in 1..fmEnd : fmData[i] = "\n"
  /\ \E i \in (fmEnd + 1)..Len(fmData) : fmData[i] \notin {" ", "\n"}

\* C9: a front-matter decoding error carries the 1-based line of the
\* offending input: the line of the unknown field, or 1 plus the number of
\* newlines that precede the offending byte of a syntax error.
C9_ErrorLineIsOffendingLine ==
  (fmPc = "done" /\ fmErr.kind \in {"syntax", "unknown"}) =>
     fmErr.line = LineOf(fmData, fmErr.idx)

\* The opening marker as the claim words it: "{" after optional white space.
\* The closing marker on its own line: "}" first on a line, only blanks after.
ClosingLine(data) ==
  \E i \in 1..Len(data) :
     /\ data[i] = "}"
     /\ (i = 1 \/ data[i - 1] = "\n")
     /\ \E j \in (i + 1)..(Len(data) + 1) :
          /\ (j = Len(data) + 1 \/ data[j] = "\n")
          /\ \A k \in (i + 1)..(j - 1) : data[k] = " "

\* C10 as stated: front matter is detected exactly when the data begins with
\* an opening marker that may be preceded by white space and holds a closing
\* marker on its own line; otherwise the bytes come back unchanged, the flag
\* is false and nothing is decoded.
C10_DetectedAfterLeadingSpace ==
  (fmPc = "done" /\ fmExists) =>
     /\ fmDecoded <=> (FrontStartMatchWs(fmData) /\ ClosingLine(fmData))
     /\ ~fmDecoded => (fmOut = fmData /\ ~fmHas /\ fmErr = NoError)

\* C10 amended: front matter is detected exactly when the first byte of the
\* data is the opening marker (white space may follow it, none may precede
\* it) and the data holds a closing marker on its own line; otherwise the
\* bytes come back unchanged, the flag is false and nothing is decoded.
C10_DetectedAtFirstByte ==
  (fmPc = "done" /\ fmExists) =>
     /\ fmDecoded <=> (Len(fmData) > 0 /\ fmData[1] = "{" /\ ClosingLine(fmData))
     /\ ~fmDecoded => (fmOut = fmData /\ ~fmHas /\ fmErr = NoError)

\* An opening marker without a closing line: returned unchanged.
C10_Witness ==
  /\ fmPc = "done" /\ fmExists
  /\ Len(fmData) > 2 /\ fmData[1] = "{"
  /\ \E i \in 1..Len(fmData) : fmData[i] = "}"
  /\ ~fmDecoded /\ fmOut = fmData /\ ~fmHas

(***************************************************************************)
(* Claims about the layout resolver.                                       *)
(***************************************************************************)
\* The parent a layout file declares: a file that cannot be read or whose
\* front matter does not decode declares none.
DeclaredParent(f) ==
  IF lyStatus[f] \in {"missing", "badfront"} THEN "" ELSE lyParent[f]

\* The files reached from f in at most n parent references.
RECURSIVE ReachedWithin(_, _)
ReachedWithin(f, n) ==
  IF f = "" THEN {}
  ELSE IF n = 0 THEN {f}
  ELSE {f} \cup ReachedWithin(DeclaredParent(f), n - 1)

AncestorsOrSelf(f) == ReachedWithin(f, Cardinality(Layouts))

\* f reaches itself through one or more declared parent references.
OnLayoutCycle(f) ==
  /\ f # ""
  /\ DeclaredParent(f) # ""
  /\ f \in AncestorsOrSelf(DeclaredParent(f))

\* The latest on-disk modification time of f and its ancestors.
ChainModTime(f) ==
  IF f = "" THEN 0 ELSE SetMax({lyMTime[g] : g \in AncestorsOrSelf(f)})

\* C2: readTemplate on a layout that lies on a cycle of parent references
\* returns the error "recursive layouts", and the recursion is never deeper
\* than the number of layout files: every call in progress can take its next
\* step and no file is entered twice.
C2_CycleIsReported ==
  /\ Len(lyStack) <= Cardinality(Layouts)
  /\ \A i, j \in 1..Len(lyStack) : lyStack[i] = lyStack[j] => i = j
  /\ lyPc \in {"resolve", "unwind"} => ENABLED LyNext
  /\ (lyPc = "unwind" /\ lyStack = <<>> /\ OnLayoutCycle(lyPage.layout)) =>
        lyRet.err = "recursive layouts"

\* A cycle of two layouts, entered at one of them, has been reported.
C2_Witness ==
  /\ lyPc = "unwind" /\ lyStack = <<>>
  /\ lyPage.layout = "a.html"
  /\ lyParent["a.html"] = "b.html" /\ lyParent["b.html"] = "a.html"
  /\ lyRet.err = "recursive layouts"

\* C6: the entry readTemplate returns, built now or taken from the cache,
\* has the latest modification time of the layout file and its ancestors,
\* as has every cached entry; readResource leaves in the page the latest of
\* the page file's time, that chain time and the time the template functions
\* collected.
C6_ChainModTimeIsMax ==
  /\ \A f \in DOMAIN templates :
        templates[f] # NilTemplate => templates[f].modTime = ChainModTime(f)
  /\ (lyPc = "unwind" /\ lyStack = <<>> /\ lyRet.err = "") =>
        lyRet.t.modTime = ChainModTime(lyPage.layout)
  /\ (lyPc = "idle" /\ lyRes.err = "" /\ lyRes.path # "" /\ ~lyPage.plain) =>
        /\ lyRes.modTime >= lyPage.mtime
        /\ lyRes.modTime >= ChainModTime(lyPage.layout)
        /\ lyRes.modTime >= lyRes.fcTime
        /\ lyRes.modTime \in {lyPage.mtime, ChainModTime(lyPage.layout), lyRes.fcTime}

\* A page rendered with a cached layout whose parent is the newest file.
C6_Witness ==
  /\ lyPc = "idle" /\ lyRes.err = "" /\ lyRes.cached
  /\ lyPage.layout = "a.html" /\ lyParent["a.html"] = "b.html"
  /\ lyMTime["b.html"] > lyMTime["a.html"]
  /\ lyMTime["b.html"] > lyPage.mtime
  /\ lyMTime["b.html"] > lyRes.fcTime
  /\ lyRes.modTime = lyMTime["b.html"]

\* C18: a readTemplate for a layout path that an earlier readTemplate of the
\* pass resolved without error returns the entry the first call cached,
\* calls os.Stat for no file (so reads no file), and leaves the cache as it
\* is.
C18_SecondResolutionIsCached ==
  [][(lyPc = "resolve" /\ lyArg \in DOMAIN lyFirst) =>
       /\ lyPc' = "unwind"
       /\ lyRet'.err = ""
       /\ lyRet'.t = lyFirst[lyArg]
       /\ lyStats' = lyStats
       /\ templates' = templates
       /\ lyStack' = lyStack]_vars

\* The second page of the pass has resolved, at no cost, the layout the
\* first page resolved: each file of the chain was looked at once.
C18_Witness ==
  /\ lyPc = "unwind" /\ lyStack = <<>>
  /\ Cardinality(lyDone) = 2
  /\ lyPage.layout = "a.html" /\ lyParent["a.html"] = "b.html"
  /\ lyRet.cached
  /\ lyRet.t = lyFirst["a.html"]
  /\ lyStats = [f \in Layouts |-> 1]

\* C21: the clone form of no cached layout entry, and not that of
\* baseTemplate, has been executed; what is executed for a page is the exec
\* copy of its layout entry or, for a page that is itself a template, the
\* clone of its own leaf template, which is no object of the cache; and no
\* Clone was called on an executed object.
C21_CloneFormNeverExecuted ==
  /\ \A f \in DOMAIN templates :
       templates[f] # NilTemplate => CloneForm(templates[f]) \notin lyExecuted
  /\ CloneForm(baseTemplate) \notin lyExecuted
  /\ lyRan # NoObject =>
       /\ lyPc = "idle"
       /\ lyRan = IF lyPage.render THEN LeafClone(lyPage.path)
                                   ELSE ExecCopy(templates[lyPage.layout])
       /\ lyRan \notin {CloneForm(templates[f]) : f \in DOMAIN templates}
  /\ ~lyPanic

\* The first page was executed on the exec copy of b.html; the second page
\* has layout a.html, which was then parsed on a clone of the clone form of
\* b.html and executed on its own exec copy.
C21_Witness ==
  /\ lyPc = "idle" /\ lyDone = Pages
  /\ lyParent["a.html"] = "b.html"
  /\ lyStats = [f \in Layouts |-> 1]
  /\ lyExecuted = {<<"exec", "a.html">>, <<"exec", "b.html">>}
  /\ lyRan = <<"exec", "a.html">>
  /\ ~lyRes.cached

\* The layout paths with a call of readTemplate in progress past its
\* recursion marker.
InProgress == {lyStack[i] : i \in 1..Len(lyStack)}

\* C19: a layout path has the nil entry only while the readTemplate that
\* stored it is waiting for the resolution of the parent; when a top-level
\* readTemplate has returned no entry is nil, and a call that returns an
\* error leaves no entry for its path.
C19_MarkerOnlyDuringResolution ==
  /\ [](\A f \in DOMAIN templates : templates[f] = NilTemplate => f \in InProgress)
  /\ []((lyStack = <<>> /\ lyPc \in {"unwind", "idle"}) =>
          \A f \in DOMAIN templates : templates[f] # NilTemplate)
  /\ []((lyStack = <<>> /\ lyPc = "unwind" /\ lyRet.err # "") =>
          lyPage.layout \notin DOMAIN templates)
  /\ [][(lyPc = "unwind" /\ lyStack # <<>> /\ lyRet'.err # "") =>
          lyStack[Len(lyStack)] \notin DOMAIN templates']_vars

\* A resolution that went two layouts deep has failed at the top level and
\* left nothing of its path in the cache.
C19_Witness ==
  /\ lyStack = <<>> /\ lyPc = "unwind"
  /\ lyRet.err \in {"parse", "recursive layouts"}
  /\ lyPage.layout = "a.html" /\ lyParent["a.html"] = "b.html"
  /\ lyStats["b.html"] > 0
  /\ "a.html" \notin DOMAIN templates

(***************************************************************************)
(* Claims about the template loader.                                       *)
(***************************************************************************)
\* The files a file imports: an unreadable file imports nothing.
ImportsOf(f) == IF f \in ldReadable THEN ldImports[f] ELSE {}

\* The files reached from the files of S in at most n imports.
RECURSIVE ImportedWithin(_, _)
ImportedWithin(S, n) ==
  IF n = 0 THEN S
  ELSE ImportedWithin(S \cup UNION {ImportsOf(f) : f \in S}, n - 1)

ImportClosure(S) == ImportedWithin(S, Cardinality(Files))

\* The import graph reached from path holds a cycle.
HasImportCycle(path) ==
  \E f \in ImportClosure({path}) : f \in ImportClosure(ImportsOf(f))

\* A goroutine that calls Do of a Once whose function it is running itself
\* waits for its own return.
WaitsForItself(g) ==
  /\ ldStack[g] # <<>>
  /\ LdTop(g).pc = "once"
  /\ LET e == IF LdTop(g).op = "Get" THEN templateCache[LdTop(g).fpath]
              ELSE treesCache[LdTop(g).fpath]
     IN  e.once = "running" /\ e.owner = g

\* Every Get that returned for a template whose import graph holds a cycle
\* returned an error.
GetReportsCycle ==
  \A g \in Procs : \A path \in DOMAIN ldResult[g] :
     HasImportCycle(path) => ldResult[g][path].err # NilErr

\* C3: Loader.Get returns a non-nil error for every template whose import
\* graph holds a cycle, wherever the cycle lies, and no call blocks forever.
C3_ImportCycleIsAnError ==
  /\ GetReportsCycle
  /\ \A g \in Procs : ~WaitsForItself(g)

\* The Once of the entry of f in the cache has run its function.
OnceIsDone(cache, f) == f \in DOMAIN cache /\ cache[f].once = "done"

\* Every goroutine for which Get has returned for a path has the template
\* and the error of the entry of the path.
SameResultForAll ==
  \A g \in Procs : \A path \in DOMAIN ldResult[g] :
     /\ OnceIsDone(templateCache, path)
     /\ ldResult[g][path] = [template |-> templateCache[path].value,
                              err |-> templateCache[path].err]
     /\ \A h \in Procs : path \in DOMAIN ldResult[h] => ldResult[h][path] = ldResult[g][path]

\* An entry whose Once is done, with an error or without, keeps what it holds.
LoadIsNeverRetried ==
  [][\A f \in Files :
       /\ OnceIsDone(templateCache, f) => templateCache'[f] = templateCache[f]
       /\ OnceIsDone(treesCache, f) => treesCache'[f] = treesCache[f]]_vars

\* C30 as stated: loadTemplate runs at most once for a path and loadTrees at
\* most once for a file, every caller of Get for a path receives the same
\* template and error, and a load that failed is not tried again.
C30_LoadsOncePerPath ==
  /\ [](\A f \in Files :
          /\ ldRuns[f].loadTemplate <= 1
          /\ ldRuns[f].direct + ldRuns[f].imported <= 1)
  /\ []SameResultForAll
  /\ LoadIsNeverRetried

\* C30, amended: loadTemplate runs at most once for a path; loadTrees runs at
\* most once for a file as an import, through getTrees, and once more when
\* the file is itself given to Get, from loadTemplate; every caller of Get
\* for a path receives the same template and error, and a load that failed
\* is not tried again.
C30_LoadsOncePerPathAndUse ==
  /\ [](\A f \in Files :
          /\ ldRuns[f].loadTemplate <= 1
          /\ ldRuns[f].direct = ldRuns[f].loadTemplate
          /\ ldRuns[f].imported <= 1)
  /\ []SameResultForAll
  /\ LoadIsNeverRetried

\* Both goroutines have the same error from Get for b.html, which cannot be
\* read and which r.html imports: loadTemplate has read it once, and so has
\* getTrees.
C30_Witness ==
  /\ \A g \in Procs :
       /\ "b.html" \in DOMAIN ldResult[g]
       /\ ldResult[g]["b.html"].err = [kind |-> "read", file |-> "b.html"]
       /\ "r.html" \in DOMAIN ldResult[g]
  /\ ldRuns["b.html"] = [loadTemplate |-> 1, direct |-> 1, imported |-> 1]

(***************************************************************************)
(* Claims about the page processor.                                        *)
(***************************************************************************)
Rendered == pgPc = "done" /\ pgErr = NilError

\* C5: after processPage succeeds, the ModTime of the resource is at least
\* the modification time the walker put there and at least that of the
\* layout selected by set.
C5_ModTimeIsAggregate ==
  Rendered =>
    /\ pgRes.ModTime >= pgIn.ModTime
    /\ pgLayout # NoLayout => pgRes.ModTime >= LayoutModTime(pgLayout)

WhiteSpace == {" ", "\n", "\t", "\r"}

\* C7: the Data of every page that processPage renders ends with exactly one
\* newline, and no other white space precedes that newline.
C7_DataEndsWithOneNewline ==
  Rendered =>
    /\ pgRes.Data # <<>>
    /\ pgRes.Data[Len(pgRes.Data)] = "\n"
    /\ Len(pgRes.Data) > 1 => pgRes.Data[Len(pgRes.Data) - 1] \notin WhiteSpace

\* The actions of the stream before the i-th that are a set with a layout
\* argument.
LayoutSets(actions, i) ==
  {j \in 1..(i - 1) : actions[j].Name = <<"set">> /\ "layout" \in DOMAIN actions[j].Args}

IsTemplateCall(a) == a.Name # TextAction /\ HasPrefix(a.Name, "t:")

\* The state of the loop of processPage before its i-th action.
Before(ords, i) ==
  RunActions(SubSeq(pgFile.actions, 1, i - 1), ords, pgIn.FilePath, 1, StartState(pgIn))

\* C17: a template call that the loop reaches executes a block only if an
\* earlier set of the stream carried a layout argument; without one the page
\* ends with the located error "specify layout with set command" and the
\* resource and the registry are as before the call; with one, the block is
\* looked up in, and executed from, the layout of the most recent such set.
C17_TemplateCallNeedsLayout ==
  pgPc = "done" /\ pgFile.ok =>
    \A ords \in ArgOrders(pgFile.actions) : \A i \in 1..Len(pgFile.actions) :
      LET a == pgFile.actions[i]
          before == Before(ords, i)
          after == Before(ords, i + 1)
          sets == LayoutSets(pgFile.actions, i)
      IN  IsTemplateCall(a) /\ before.err = NilError =>
            IF sets = {}
              THEN /\ after.err = PageError("specify layout with set command",
                                            pgIn.FilePath, i, "")
                   /\ after.body = before.body
                   /\ pgErr = after.err
                   /\ pgRes = pgIn
                   /\ pages = EmptyMap
              ELSE LET chosen == pgFile.actions[SetMax(sets)].Args["layout"]
                       x == BlockExecute(chosen, Tail(a.Name), a, pgIn.FilePath, i)
                   IN  IF Tail(a.Name) \notin LayoutBlocks(chosen)
                         THEN /\ after.body = before.body
                              /\ after.err = PageError("template not found in layout",
                                                       pgIn.FilePath, i, "")
                       ELSE IF x.failed
                         THEN after.body = before.body /\ after.err # NilError
                       ELSE after.body = before.body \o x.out /\ after.err = NilError

\* A page is rendered whose stream selects one layout, then another, and
\* then calls a block: the block of the second layout is its content.
C17_Witness ==
  /\ Rendered
  /\ pgFile.ok
  /\ \E i, j, k \in 1..Len(pgFile.actions) :
       /\ i < j /\ j < k /\ k = Len(pgFile.actions)
       /\ LayoutSets(pgFile.actions, k) = {i, j}
       /\ pgFile.actions[i].Args["layout"] = <<"base.html">>
       /\ pgFile.actions[j].Args["layout"] = <<"alt.html">>
       /\ pgFile.actions[k].Name = <<"t:", "body">>
       /\ pgPage.Content = BlockExecute(<<"alt.html">>, <<"body">>, pgFile.actions[k],
                                        pgIn.FilePath, k).out

\* C25: processPage returns the same error for the same page source on
\* every run, whatever the order in which Page.set ranges over the
\* arguments of a set action.
C25_SameErrorOnEveryRun ==
  (pgPc = "done" /\ pgFile.ok) =>
    \A ords \in ArgOrders(pgFile.actions) :
      ProcessPage(EmptyMap, pgIn, pgFile, ords).err = pgErr

(***************************************************************************)
(* Claims about the walk.                                                  *)
(***************************************************************************)
\* The directory of a file path: the path without its last name.
RECURSIVE DirOf(_)
DirOf(filePath) ==
  IF filePath = <<>> THEN <<>>
  ELSE IF filePath[Len(filePath)] = "/" THEN SubSeq(filePath, 1, Len(filePath) - 1)
  ELSE DirOf(SubSeq(filePath, 1, Len(filePath) - 1))

\* Directory d is directory e or one of its ancestors.
IsSameOrAncestor(d, e) == Len(d) <= Len(e) /\ SubSeq(e, 1, Len(d)) = d

Logged(op, f, oks) ==
  \E i \in DOMAIN wkLog : wkLog[i].op = op /\ wkLog[i].file = f /\ wkLog[i].ok \in oks

PassCompleted == wkPc = "done" /\ wkErr # "visit function failed"

\* C1: in a pass that the visit function does not stop, when processPage
\* fails for a page, every other page of the same directory and of its
\* ancestors is still processed, and handed to the visit function when it
\* renders.
C1_FailureSparesOtherPages ==
  PassCompleted =>
    \A f \in PageFiles :
      Logged("process", f, {FALSE}) =>
        \A g \in PageFiles \ {f} :
          IsSameOrAncestor(DirOf(g), DirOf(f)) =>
            /\ Logged("process", g, BOOLEAN)
            /\ Logged("process", g, {TRUE}) => Logged("visit", g, {TRUE})

\* The entries of the log for pages that rendered under a path other than
\* the one they were found under.
Overrides ==
  {i \in DOMAIN wkLog :
     wkLog[i].op = "process" /\ wkLog[i].ok /\ wkLog[i].path # wkLog[i].query}

Parsed == psPc = "done"

\* The argument names of the package documentation: a letter or "_", then
\* letters, digits, "_", ".", ":" or "-".
DocumentedArgumentName(name) ==
  /\ name # <<>>
  /\ IsLetter(name[1]) \/ name[1] = "_"
  /\ \A i \in 2..Len(name) :
       IsLetter(name[i]) \/ IsDigit(name[i]) \/ name[i] \in {"_", ".", ":", "-"}

\* The action a with the one argument name="b".
OneArgument(name) == OneAction(<<Argument(<<" ">>, name, <<"=">> \o Quoted(<<"b">>))>>)

AcceptedAs(name) ==
  /\ psOut.err = NoScanError
  /\ Len(psOut.actions) = 1
  /\ DOMAIN psOut.actions[1].Args = {name}

\* C11: the parser accepts as one argument name exactly the names of the
\* package documentation, those that begin with "_" or contain "." included.
C11_DocumentedNamesAreAccepted ==
  Parsed =>
    \A name \in ArgumentNames :
      psInput = OneArgument(name) => (AcceptedAs(name) <=> DocumentedArgumentName(name))

\* Actions in which the argument f has no value and is followed by the
\* right delimiter, or by another argument, or follows one.
NoValue == Argument(<<" ">>, <<"f">>, <<>>)

WithValue == Argument(<<" ">>, <<"g">>, <<"=">> \o Quoted(<<"a">>))

ValueLessActions ==
  {OneAction(<<NoValue>>), OneAction(<<NoValue, WithValue>>),
   OneAction(<<WithValue, NoValue>>)}

\* C12: an action in which an argument name is followed by another argument
\* or by the right delimiter instead of "=" parses without error.
C12_ValueIsOptional ==
  Parsed /\ psInput \in ValueLessActions => psOut.err = NoScanError

\* The argument f="b" followed by arguments that append to it with "+=".
FirstValue == Argument(<<" ">>, <<"f">>, <<"=">> \o Quoted(<<"b">>))

AppendTight == Argument(<<" ">>, <<"f">>, <<"+", "=">> \o Quoted(<<"a">>))

AppendSpaced == Argument(<<" ">>, <<"f">>, <<" ", "+", "=", " ">> \o Quoted(<<"z">>))

RECURSIVE AppendedText(_)
AppendedText(appends) ==
  IF appends = <<>> THEN <<>>
  ELSE (IF Head(appends) = AppendTight THEN <<"a">> ELSE <<"z">>)
       \o AppendedText(Tail(appends))

\* C13: after f="b", every f+="..." appends to the value of f, which stays
\* located at the first value, and Parse reports no error.
C13_PlusEqualAppends ==
  Parsed =>
    \A appends \in SeqsUpTo({AppendTight, AppendSpaced}, MaxArgs - 1) \ {<<>>} :
      psInput = OneAction(<<FirstValue>> \o appends) =>
        /\ psOut.err = NoScanError
        /\ Len(psOut.actions) = 1
        /\ DOMAIN psOut.actions[1].Args = {<<"f">>}
        /\ psOut.actions[1].Args[<<"f">>] =
             Value(<<"b">> \o AppendedText(appends), Len(defaultLeftDelim) + 4)

\* The offset of the first byte of the line that holds offset k.
RECURSIVE LineStart(_, _)
LineStart(input, k) ==
  IF k = 0 \/ input[k] = "\n" THEN k ELSE LineStart(input, k - 1)

\* The 1-based line and column of offset k, the first byte of every line
\* being column 1.
LineAndColumn(input, k) ==
  [line |-> 1 + CountNL(SubSeq(input, 1, k)), col |-> k - LineStart(input, k) + 1]

\* The positions that Location() is asked for: those of the actions that
\* are no text and of the values of their arguments.
LocatedPositions ==
  UNION {{psOut.actions[i].pos}
           \cup {psOut.actions[i].Args[n].pos : n \in DOMAIN psOut.actions[i].Args} :
         i \in {j \in DOMAIN psOut.actions : psOut.actions[j].Name # TextAction}}

\* C14: Location() reports the 1-based line and the 1-based column of the
\* position, by the same rule on the first line as on the later ones.
C14_LocationIsOneBased ==
  Parsed /\ psOut.err = NoScanError =>
    \A k \in LocatedPositions : loc(psInput, k) = LineAndColumn(psInput, k)

(***************************************************************************)
(* More claims about the page processor and the walk.                      *)
(***************************************************************************)
\* The time that the argument k of the set action a gives, the zero time
\* when a has no such argument.
TimeOf(a, k) == IF k \in DOMAIN a.Args THEN ParseRFC3339(a.Args[k]).t ELSE 0

\* C15: a set action with a valid updated time sets Updated and leaves
\* Created alone; with created and updated both, Created and Updated are the
\* two times, in whatever order the arguments are visited.
C15_UpdatedSetsUpdated ==
  Rendered =>
    \A a \in SampleActions :
      (/\ a.Name = <<"set">>
       /\ DOMAIN a.Args \subseteq {"created", "updated"}
       /\ pgFile.actions = <<a>>) =>
        /\ pgPage.Created = TimeOf(a, "created")
        /\ pgPage.Updated = TimeOf(a, "updated")

\* The page files of directory d, and the files of the static tree that
\* are given to the visit function.
PagesOf(d) == {f \in PageFiles : DirOf(f) = d}

IsIndexPage(f) == f = DirOf(f) \o <<"/">> \o IndexName

VisitedStaticFiles == FilesUnder(StaticDir) \ {StaticDir \o <<"/", ".DS_Store">>}

LoggedBefore(i, op, f) ==
  \E j \in 1..(i - 1) : wkLog[j].op = op /\ wkLog[j].file = f

\* No page is processed before the static tree was visited, an index page
\* before the other pages of its directory, or a page before the pages of
\* the directories below its own.
ProcessedInOrder(i) ==
  LET f == wkLog[i].file
  IN  /\ \A h \in VisitedStaticFiles : LoggedBefore(i, "visit", h)
      /\ IsIndexPage(f) =>
           \A h \in PagesOf(DirOf(f)) \ {f} : LoggedBefore(i, "process", h)
      /\ \A h \in PageFiles :
           (DirOf(h) # DirOf(f) /\ IsSameOrAncestor(DirOf(f), DirOf(h))) =>
             LoggedBefore(i, "process", h)

\* C16: processPage is called for every other page of a directory before
\* its index page and for every page of every subdirectory (which renders
\* or fails) before any page of the parent, and the static tree is visited
\* completely before the first page is processed.
C16_ChildrenBeforeParents ==
  \A i \in DOMAIN wkLog : wkLog[i].op = "process" => ProcessedInOrder(i)

\* The same order for the pages that are processed at all.
NoPageBeforeItsChildren ==
  \A i, j \in DOMAIN wkLog :
    (/\ i < j
     /\ wkLog[i].op = "process" /\ wkLog[j].op = "process"
     /\ wkLog[i].file # wkLog[j].file) =>
      /\ ~(DirOf(wkLog[i].file) # DirOf(wkLog[j].file)
           /\ IsSameOrAncestor(DirOf(wkLog[i].file), DirOf(wkLog[j].file)))
      /\ ~(IsIndexPage(wkLog[i].file) /\ DirOf(wkLog[i].file) = DirOf(wkLog[j].file))

\* The bytes of input at the offsets of the set keep, in order.
RECURSIVE BytesAt(_, _, _)
BytesAt(input, keep, i) ==
  IF i > Len(input) THEN <<>>
  ELSE (IF i - 1 \in keep THEN <<input[i]>> ELSE <<>>) \o BytesAt(input, keep, i + 1)

\* The offsets of the input that one of the scanned actions covers, from the
\* first byte of its left delimiter to the last byte of its right delimiter.
InSpans == UNION {psSpans[k].from .. (psSpans[k].to - 1) : k \in DOMAIN psSpans}

OutsideSpans == BytesAt(psInput, (0 .. (Len(psInput) - 1)) \ InSpans, 1)

TextActions == {i \in DOMAIN psOut.actions : psOut.actions[i].Name = TextAction}

RECURSIVE TextsFrom(_)
TextsFrom(i) ==
  IF i > Len(psOut.actions) THEN <<>>
  ELSE (IF i \in TextActions THEN psOut.actions[i].Text ELSE <<>>) \o TextsFrom(i + 1)

\* An action covers the bytes from a left delimiter to a right delimiter, and
\* the actions follow one another in the input.
SpansAreActions ==
  /\ Len(psSpans) = Cardinality(DOMAIN psOut.actions \ TextActions)
  /\ \A k \in DOMAIN psSpans :
       /\ 0 <= psSpans[k].from
       /\ psSpans[k].from + Len(defaultLeftDelim) + Len(defaultRightDelim) <= psSpans[k].to
       /\ psSpans[k].to <= Len(psInput)
       /\ HasPrefixAt(psInput, psSpans[k].from, defaultLeftDelim)
       /\ HasPrefixAt(psInput, psSpans[k].to - Len(defaultRightDelim), defaultRightDelim)
       /\ k > 1 => psSpans[k - 1].to <= psSpans[k].from

\* scanText, scanAction or the return of scan can run: none of them waits
\* for anything but its turn.
ScanCanStep == psPc \in {"text", "action", "return"}

\* C27: Parse terminates on every input: until it has returned it can always
\* take a step, every step that continues the loop of scan moves the position
\* of the scanner forward, and the position is never beyond the end of the
\* input, so that the loop has at most as many turns as the input has bytes.
\* When Parse succeeds, the actions returned
\* are in strictly increasing position, no TextAction is empty, and the texts
\* of the TextActions are, in order, the bytes of the input outside every
\* action from its left delimiter to its right delimiter.
C27_ParseTerminatesAndKeepsText ==
  /\ [](psPos \in 0 .. Len(psInput))
  /\ [][psPc' \in {"text", "action"} => psPos' > psPos]_psVars
  /\ [](~Parsed => ScanCanStep)
  /\ [](Parsed /\ psOut.err = NoScanError =>
          /\ \A i, j \in DOMAIN psOut.actions :
               i < j => psOut.actions[i].pos < psOut.actions[j].pos
          /\ \A i \in TextActions :
               /\ psOut.actions[i].Text # <<>>
               /\ IndexFrom(psOut.actions[i].Text, 0, defaultLeftDelim) < 0
          /\ SpansAreActions
          /\ TextsFrom(1) = OutsideSpans)

\* A parse that succeeds with two actions, text before, between and after
\* them, and a right delimiter inside the quoted value of the first.
C27_Witness ==
  /\ Parsed /\ psOut.err = NoScanError
  /\ Len(psSpans) = 2
  /\ Cardinality(TextActions) = 3
  /\ \E n \in DOMAIN psOut.actions[2].Args :
       psOut.actions[2].Args[n].Text = defaultRightDelim

(***************************************************************************)
(* Claims about the live-reload server.                                    *)
(***************************************************************************)
\* The requests that hold what they read from s.resources.
HasRead(q) == svReq[q].pc \in {"unlock", "respond"}

\* C20: whatever the interleaving of the requests, the map a resource
\* request reads is the map of one build pass that had returned when it was
\* read, and it has not changed since; s.resources never refers to a map a
\* pass is filling, a reload installs only the map of a pass that returned
\* without error, s.resources changes only in a step of the holder of the
\* lock, and the map it refers to is changed by no step.
C20_RequestsReadCompletedPass ==
  /\ [](/\ svMaps[svResources].state \in {"ok", "failed"}
        /\ svResources # 0 => svMaps[svResources].state = "ok"
        /\ \A q \in Readers : HasRead(q) =>
             /\ svReq[q].seen \in 0..MaxPasses
             /\ svReq[q].seenState \in {"ok", "failed"}
             /\ svMaps[svReq[q].seen].state = svReq[q].seenState
             /\ svMaps[svReq[q].seen].paths = svReq[q].snap
             /\ svReq[q].r = IF svReq[q].path \in svReq[q].snap
                               THEN [m |-> svReq[q].seen, path |-> svReq[q].path]
                               ELSE NilResource
        /\ \A p \in Reloaders : svLoad[p].pc \in {"assign", "unlock"} => svMu = p
        /\ \A q \in Readers : svReq[q].pc \in {"read", "unlock"} => svMu = q)
  /\ [][/\ svMaps'[svResources] = svMaps[svResources]
        /\ svResources' # svResources =>
             /\ svMu \in Reloaders /\ svMu' = svMu
             /\ svResources' = svLoad[svMu].m]_vars

\* A request holds what it read from the map of the first pass to be
\* installed, which started second, while the other reload has put some but
\* not all paths into its own map.
C20_Witness ==
  /\ svReq["q1"].pc = "respond" /\ svReq["q1"].seen = 2
  /\ svReq["q1"].r # NilResource
  /\ svResources = 2
  /\ svLoad["r1"].pc = "visit" /\ svLoad["r1"].m = 1
  /\ svMaps[1].paths # {} /\ svMaps[1].paths # SvPaths

\* The wait requests that hold the channel they read from s.wait.
HoldsChannel(w) == svWt[w].pc \in {"unlock", "select", "done"}

\* The request waits in its select.
InSelect(w) == svWt[w].pc = "select"

\* The channels that s.wait has been, and is no more.
Replaced == {c \in 0..MaxPasses : c < svWait}

\* C28: a wait request whose channel a reload has replaced finds it closed,
\* by the reload that made the next one, and once its channel is closed the
\* request leaves its select, with "data: done" unless its client has gone;
\* "data: done" is written only for a closed channel.  The reload of a pass
\* that failed installs no map, closes no channel and makes none.  No
\* channel is closed twice: a replaced channel has been closed once, by a
\* reload whose pass returned without error, and the current one is open
\* but between the close and the make of the reload that replaces it.
C28_ReloadReleasesWaiters ==
  /\ [](\A w \in Waiters :
          /\ HoldsChannel(w) /\ svWt[w].wait \in Replaced => svChans[svWt[w].wait].closes = 1
          /\ svWt[w].sent => svChans[svWt[w].wait].closes = 1)
  /\ \A w \in Waiters :
       (InSelect(w) /\ svChans[svWt[w].wait].closes > 0) ~> (svWt[w].pc = "done")
  /\ [](\A m \in 1..MaxPasses : svMaps[m].state = "failed" =>
          /\ svResources # m
          /\ \A c \in 0..MaxPasses : svChans[c].by # m /\ svChans[c].made # m)
  /\ [][\A p \in Reloaders :
          svLoad[p].pc = "visit" /\ svLoad'[p].pc = "idle" =>
            UNCHANGED <<svResources, svWait, svChans, svWt>>]_vars
  /\ [](\A c \in 0..MaxPasses :
          /\ svChans[c].closes <= 1
          /\ c \in Replaced =>
               /\ svChans[c].closes = 1
               /\ svChans[c].by = svChans[c + 1].made
               /\ svMaps[svChans[c].by].state = "ok"
          /\ c = svWait => (svChans[c].closes = 1 <=> \E p \in Reloaders : svLoad[p].pc = "make")
          /\ c > svWait => svChans[c].closes = 0)

\* The wait request has read channel 0; a reload whose pass failed has
\* returned; the reload of pass 2 has closed channel 0 and made channel 1,
\* and the request has written "data: done" while the other reload was
\* still at work.
C28_Witness ==
  /\ svWt["w1"].wait = 0 /\ svWt["w1"].sent
  /\ svMaps[1].state = "failed"
  /\ svWait = 1 /\ svChans[0].by = 2
  /\ \E p \in Reloaders : svLoad[p].pc # "idle"

(***************************************************************************)
(* Claims about the order of the uploads.                                  *)
(***************************************************************************)
IsNew(r) == r.UpdateReason = updateNew

IsLast(r) == TypeByExtension(r.Path) \in lastTypes

\* C22: in the slice sortUploads leaves, every new resource precedes every
\* resource that is not new, inside each of the two groups every resource
\* that is not HTML, CSS or JavaScript precedes every one that is, and
\* resources equal in both respects are in ascending order of path.
C22_NewThenOtherTypesFirst ==
  suPc = "done" =>
    /\ Len(suOut) = Len(suIn)
    /\ {suOut[i] : i \in 1..Len(suOut)} = {suIn[i] : i \in 1..Len(suIn)}
    /\ \A i, j \in 1..Len(suOut) : i < j =>
         /\ IsNew(suOut[j]) => IsNew(suOut[i])
         /\ (IsNew(suOut[i]) = IsNew(suOut[j]) /\ IsLast(suOut[i])) => IsLast(suOut[j])
         /\ (IsNew(suOut[i]) = IsNew(suOut[j]) /\ IsLast(suOut[i]) = IsLast(suOut[j])) =>
              PathLess(suOut[i].Path, suOut[j].Path)

(***************************************************************************)
(* Claims about the choice of an image.                                    *)
(***************************************************************************)
\* The call was made with maxWidth > 0 and images of positive size.
Chosen == ssPc = "done" /\ ssOut.err = ""

FitScale(i) == ImageScale(ssIn[i], ssMaxWidth, ssMaxHeight)

SameScale(x, y) == x.n * y.d = y.n * x.d

\* The index of the image that was selected.
Selected == CHOOSE k \in 1..Len(ssIn) : ssIn[k].Src = ssOut.Src

\* The images in another order.
Reordered(f) == [i \in 1..Len(ssIn) |-> ssIn[f[i]]]

\* The selected image is the one of the largest fit scale not above 1 if
\* there is one, otherwise one of the largest width, and the reported size
\* is within the size of the image and within the box.
BestFitWithinBox ==
  LET k == Selected
      img == ssIn[k]
  IN  /\ (\E i \in 1..Len(ssIn) : ScaleLessEq(FitScale(i), One)) =>
           /\ ScaleLessEq(FitScale(k), One)
           /\ \A i \in 1..Len(ssIn) :
                ScaleLessEq(FitScale(i), One) => ScaleLessEq(FitScale(i), FitScale(k))
      /\ (\A i \in 1..Len(ssIn) : ScaleLess(One, FitScale(i))) =>
           \A i \in 1..Len(ssIn) : ssIn[i].Width <= img.Width
      /\ ssOut.Width <= img.Width
      /\ ssOut.Height <= img.Height
      /\ ssOut.Width <= ssMaxWidth
      /\ ssMaxHeight > 0 => ssOut.Height <= ssMaxHeight

\* C23 as stated: the same image is selected whatever the order of the
\* images, and it is the best fit within the box.
C23_SameImageInAnyOrder ==
  Chosen =>
    /\ BestFitWithinBox
    /\ \A f \in Perms(1..Len(ssIn)) :
         computeSrcSet(Reordered(f), ssMaxWidth, ssMaxHeight).Src = ssOut.Src

\* C23, amended: the fit scale of the selected image is the same whatever
\* the order of the images, and it is the best fit within the box; of the
\* images of that fit scale the first one is selected, so that the image,
\* its width and its height are the same in every order when no other image
\* has the fit scale of the selected one.
C23_SameFitScaleInAnyOrder ==
  Chosen =>
    /\ BestFitWithinBox
    /\ \A i \in 1..Len(ssIn) : SameScale(FitScale(i), FitScale(Selected)) => Selected <= i
    /\ \A f \in Perms(1..Len(ssIn)) :
         LET other == computeSrcSet(Reordered(f), ssMaxWidth, ssMaxHeight)
             j == CHOOSE j \in 1..Len(ssIn) : ssIn[j].Src = other.Src
         IN  /\ other.err = ""
             /\ SameScale(FitScale(j), FitScale(Selected))
             /\ (\A i \in 1..Len(ssIn) \ {Selected} :
                   ~SameScale(FitScale(i), FitScale(Selected))) => other = [ssOut EXCEPT !.SrcSet = other.SrcSet]

\* Of three images the last is selected: the first would have to be
\* stretched, the second fits the box at a smaller scale, and the height of
\* the box decides the scale of the third.
C23_Witness ==
  /\ Chosen
  /\ Len(ssIn) = 3 /\ Selected = 3
  /\ ScaleLess(One, FitScale(1))
  /\ ScaleLess(FitScale(2), FitScale(3))
  /\ ssMaxHeight > 0
  /\ ~SameScale(FitScale(3), [n |-> ssMaxWidth, d |-> ssIn[3].Width])
  /\ ssOut.Height = ssMaxHeight

(***************************************************************************)
(* Claims about the minifier.                                              *)
(***************************************************************************)
\* The number of raw elements that are open before token i of the document:
\* a start tag opens one, an end tag closes one if one is open, and a
\* self-closing tag opens none.
RECURSIVE OpenRaw(_, _)
OpenRaw(src, i) ==
  IF i <= 1 THEN 0
  ELSE LET open == OpenRaw(src, i - 1)
           x == src[i - 1]
       IN  IF x \in StartTags /\ TagName(x) \in rawTags THEN open + 1
           ELSE IF x \in EndTags /\ TagName(x) \in rawTags /\ open > 0 THEN open - 1
           ELSE open

IsText(x) == x \in TextBytes

\* C24: the counter of open raw elements is never negative and is zero
\* exactly when no raw element is open; a text token inside an open raw
\* element is appended to the output as it is, a text token outside is
\* appended with its white space collapsed, and a comment adds nothing.
C24_RawTextIsKept ==
  /\ [](mnPc = "loop" =>
          /\ mnRaw >= 0
          /\ (mnRaw = 0) <=> (OpenRaw(mnSrc, mnI) = 0))
  /\ [][(mnPc = "loop" /\ mnI <= Len(mnSrc)) =>
          LET text == SubSeq(mnSrc, mnI, mnI' - 1)
          IN  /\ (IsText(mnSrc[mnI]) /\ OpenRaw(mnSrc, mnI) > 0) => mnDst' = mnDst \o text
              /\ (IsText(mnSrc[mnI]) /\ OpenRaw(mnSrc, mnI) = 0) =>
                   mnDst' = appendMinText(mnDst, text)
              /\ mnSrc[mnI] \in CommentLexemes => mnDst' = mnDst]_vars

\* The bytes of a text that are no white space, in their order.
RECURSIVE NonWhiteSpace(_)
NonWhiteSpace(text) ==
  IF text = <<>> THEN <<>>
  ELSE IF Head(text) \in WhiteSpace THEN NonWhiteSpace(Tail(text))
  ELSE <<Head(text)>> \o NonWhiteSpace(Tail(text))

\* The lexemes of a sequence that are bytes of text.
RECURSIVE TextOf(_)
TextOf(src) ==
  IF src = <<>> THEN <<>>
  ELSE IF IsText(Head(src)) THEN <<Head(src)>> \o TextOf(Tail(src))
  ELSE TextOf(Tail(src))

\* C26: the bytes of the text tokens that are no white space are in the
\* output of Minify, all of them and in their order.
C26_OnlyWhiteSpaceIsRemoved ==
  mnPc = "done" => NonWhiteSpace(TextOf(mnDst)) = NonWhiteSpace(TextOf(mnSrc))

(***************************************************************************)
(* Claims about the pages of a pattern.                                    *)
(***************************************************************************)
Min(a, b) == IF a < b THEN a ELSE b

\* C29: Glob fails for no limit; limit 0 returns all the pages, sorted as
\* asked, a limit n > 0 the first min(n, count) of them and a limit n < 0
\* the last min(-n, count) of them.
C29_GlobLimitInBounds ==
  glPc = "done" =>
    LET sorted == SortPages(glPages, glSort)
        count == Len(sorted)
    IN  /\ glOut.ok
        /\ glLimit = 0 => glOut.pages = sorted
        /\ glLimit > 0 => glOut.pages = SubSeq(sorted, 1, Min(glLimit, count))
        /\ glLimit < 0 =>
             glOut.pages = SubSeq(sorted, count - Min(0 - glLimit, count) + 1, count)

====
